---- MODULE Spec2Model ----
(***************************************************************************)
(* Inventory-planning meeting tool: the rolling projection of the          *)
(* long-lead item (utils/dw309.py), the order table and the discussion     *)
(* heuristics of the normal items (utils/order_planning.py, app.py), the   *)
(* review of last month's prediction (utils/prediction_review.py), the     *)
(* stock forecast (utils/forecast.py) and a session of the order-planning  *)
(* section of the page (app.py).                                           *)
(*                                                                         *)
(* Numbers.  The data files hold integers; the code divides a sum by a     *)
(* count of at most six values and rounds table cells to one decimal.      *)
(* Every quantity is therefore held as an integer number of 1/Scale units  *)
(* (Scale = 30 = lcm(1,2,3,6,10)), which makes the averages and the        *)
(* roundings exact.  Arithmetic is the exact arithmetic of these           *)
(* rationals, with two exceptions.  The product safety_stock * factor of   *)
(* order_planning.py line 101 is a binary64 product, and the stocks and    *)
(* factors for which it rounds above the exact product are tabulated       *)
(* (ProductRoundsUp).  The month-end stock of dw309.py line 82 is a        *)
(* binary64 sum: next to its exact value the model keeps the error of the  *)
(* double, computed by the rounding rule of binary64 (Round64), and the    *)
(* comparisons of lines 84-88 and of app.py 735 are those of the doubles.  *)
(*                                                                         *)
(* Dictionary keys are written in ASCII:                                   *)
(*   "incoming_expected" 入荷見込み   "arranged" 手配済み   "incoming" 入庫 *)
(*   "usage_forecast" 使用量予測      "outgoing" 出庫                       *)
(*   "current_stock" 現在庫   "stock" 在庫   "predicted_stock" 予測在庫     *)
(* and the DataFrame columns / labels:                                     *)
(*   month 月, month_start 月初在庫, incoming 入庫🔒, usage 使用📊,          *)
(*   month_end 月末📊, status 状態;                                         *)
(*   "stockout" 🔴欠品, "critical" 🔴危険, "excess" 🟠過剰, "normal" ✅適正; *)
(*   item_id 品目名, next_month_end 来月末在庫予測 (来月末予測),             *)
(*   next_next_usage 翌々月使用量予測, order_qty 発注量,                     *)
(*   next_next_end 翌々月末在庫予測, safety_stock 安全在庫,                  *)
(*   max_stock 上限在庫, risk リスク, reasons 要議論理由;                    *)
(*   risk "shortage" 欠品, "excess" 過剰, "normal" 適正;                     *)
(*   tags "shortage_risk" 欠品リスク, "excess_risk" 過剰在庫リスク,          *)
(*        "abnormal_order" 発注量異常, "next_month_short" 来月在庫不足;      *)
(*   accuracy table: item 品目, predicted_usage 予測出庫,                    *)
(*   actual_usage 実績出庫, diff 差分, error_rate 誤差率(%),                 *)
(*   predicted_stock 予測在庫, actual_stock 実績在庫                         *)
(***************************************************************************)
EXTENDS Integers, Sequences, FiniteSets, TLC

VARIABLES
    monthly_data,   \* data/monthly_data.json: set of <<month, item_id, key, value>>
    dw_args,        \* arguments of the last build_dw309_forecast call
    dw_df,          \* the DataFrame it returned (sequence of rows)
    dw_locals,      \* the unrounded values of its loop, one record per iteration
    dw_summary,     \* the summary dict it returned
    dr_args,        \* arguments of the last risk_level / discussion_reasons call
    dr_result,      \* what the two functions returned for them
    master_items,   \* data/master_items.json, the normal items (a sequence)
    od_args,        \* orders and factor the order table and the list were built from
    order_df,       \* build_order_dataframe(...) with its risk column
    discussion_rows, \* build_discussion_rows(order_df, factor)
    pa_args,        \* arguments of the last calculate_prediction_accuracy call
    accuracy_df,    \* the DataFrame it returned, its rows keyed by item
    forecast_result, \* what the last calculate_inventory_forecast call did:
                    \* the rows it returned, or the exception it raised
    ss_orders,                \* st.session_state.orders
    ss_safety_factor,         \* st.session_state.safety_factor, in twentieths
    ss_applied_orders,        \* st.session_state.applied_orders
    ss_applied_safety_factor, \* st.session_state.applied_safety_factor
    ss_discussion_items,      \* st.session_state.discussion_items
    ss_comments,              \* st.session_state.comments, order section, per item
    order_detail_item,        \* the item selected in the order section
    decision_comment,         \* the text in the order section's comment box
    notice_shown,             \* the recalc notice is on the page (line 649)
    comments_file,            \* data/comments.json, order section, per item
    snapshot_file,            \* data/meeting_snapshot_<date>.json: written or
                              \* not (what it holds is not kept)
    run,                      \* the last run: the save buttons pressed for it,
                              \* whether a recalculating button was, and the
                              \* files it wrote
    repeat,         \* per function called a first time: its arguments, what it
                    \* returned, and what a second call with them returned
    calculation_results, \* st.session_state.calculation_results, per item
    uploaded        \* the file selected in the sidebar's uploader, parsed

dwVars == <<dw_args, dw_df, dw_locals, dw_summary>>
drVars == <<dr_args, dr_result>>
odVars == <<master_items, od_args, order_df, discussion_rows>>
paVars == <<pa_args, accuracy_df>>
ssVars == <<ss_orders, ss_safety_factor, ss_applied_orders,
            ss_applied_safety_factor, ss_discussion_items, ss_comments,
            order_detail_item, decision_comment, notice_shown>>
fileVars == <<comments_file, snapshot_file>>
appVars == <<calculation_results, uploaded>>
extVars == <<paVars, forecast_result, ssVars, fileVars, run, repeat, appVars>>
vars == <<monthly_data, dwVars, drVars, odVars, extVars>>

-----------------------------------------------------------------------------
(* Numbers *)

Scale == 30

\* an int of the data files as a number of the model
Num(v) == v * Scale

\* round(x, 1).  A tie would need x = 1.5 mod 3, which no integer is, so
\* the half-way rule of Python's round never applies to a model number.
Round1(x) == ((2 * x + (Scale \div 10)) \div (2 * (Scale \div 10))) * (Scale \div 10)

RECURSIVE SumSeq(_)
SumSeq(s) == IF s = <<>> THEN 0 ELSE Head(s) + SumSeq(Tail(s))

-----------------------------------------------------------------------------
(* binary64.  A double is written exact + err: exact, the rational the     *)
(* exact arithmetic gives, a whole number, a half or a third in 1/Scale    *)
(* units; err, what the double differs from it by, in units of 2^-56 / 3.  *)
(* Whole numbers and halves of this size are doubles (err = 0); a third is *)
(* not.                                                                    *)

\* the element of a set of one element.  Only({e(x) : x \in {v}}) is e(v),
\* with v computed once however often e refers to x.
Only(S) == CHOOSE x \in S : TRUE

RECURSIVE Pow2(_)
Pow2(n) == IF n = 0 THEN 1 ELSE 2 * Pow2(n - 1)

Abs(x) == IF x < 0 THEN 0 - x ELSE x

Sign(x) == IF x < 0 THEN 0 - 1 ELSE IF x > 0 THEN 1 ELSE 0

\* the binary exponent of a value of magnitude a4 / (4 * Scale), at least 1/4:
\* the j with 2^j <= magnitude < 2^(j+1), searched from j upwards
RECURSIVE Exponent(_, _)
Exponent(a4, j) ==
    IF a4 < Scale * Pow2(j + 3) THEN j ELSE Exponent(a4, j + 1)

\* the binade of exact + err: just inside a power of two the value lies in
\* the binade below
Binade(exact, err) ==
    Only({ IF /\ Abs(exact) * 4 = Scale * Pow2(j0 + 2)
              /\ err # 0
              /\ (err < 0) = (exact > 0)
           THEN j0 - 1 ELSE j0 : j0 \in {Exponent(4 * Abs(exact), 0 - 2)} })

\* the thirds of exact beyond a whole number: 0, 1 or 2 (0 for a half)
Thirds(exact) ==
    IF exact % (Scale \div 3) = 0 THEN (exact \div (Scale \div 3)) % 3 ELSE 0

\* the multiple of 3 * G nearest to off, as a count, ties to the count that
\* makes t + count even
NearestEven(off, G, t) ==
    Only({ LET rem == off - M0 * 3 * G
           IN  IF 2 * rem < 3 * G THEN M0
               ELSE IF 2 * rem > 3 * G THEN M0 + 1
               ELSE IF (t + M0) % 2 = 0 THEN M0 ELSE M0 + 1 :
           M0 \in {off \div (3 * G)} })

\* Round to nearest, ties to even: the error of the double nearest to
\* exact + err.  The doubles of the binade of exponent j are the multiples of
\* ulp = 2^(j-52), which is 3 * 2^(j+4) units.  exact / ulp has the
\* fractional part t/3, where t = (exact in thirds) * 2^(52-j) mod 3 and
\* 2^m mod 3 is 1 for even m and 2 for odd m; its whole part has the parity
\* of t.  A value of exact part 0 is a difference of two doubles within a
\* factor 2 of each other and is a double itself; so is a whole number or a
\* half without error.
Round64(exact, err) ==
    Only({ IF x = 0 THEN e
           ELSE IF e = 0 /\ Thirds(x) = 0 THEN 0
           ELSE Only({ Only({ NearestEven(t * G + e, G, t) * 3 * G - t * G :
                              G \in {Pow2(j + 4)},
                              t \in {(Thirds(x) * (IF j % 2 = 0 THEN 1 ELSE 2)) % 3} }) :
                       j \in {Binade(x, e)} }) :
           x \in {exact}, e \in {err} })

\* a number that compares with twice a whole number as the double
\* exact + err compares with that whole number
Order64(exact, err) == 2 * exact + Sign(err)

Min(a, b) == IF a < b THEN a ELSE b

-----------------------------------------------------------------------------
(* monthly_data.get(month, {}).get(item_id, {}).get(key, default) *)

HasKey(md, month, item_id, key) ==
    \E e \in md : e[1] = month /\ e[2] = item_id /\ e[3] = key

RawValue(md, month, item_id, key) ==
    (CHOOSE e \in md : e[1] = month /\ e[2] = item_id /\ e[3] = key)[4]

Get(md, month, item_id, key, default) ==
    IF HasKey(md, month, item_id, key)
    THEN Num(RawValue(md, month, item_id, key))
    ELSE default

-----------------------------------------------------------------------------
(* utils/dw309.py *)

\* a month label "%Y-%m" is the pair <<year, month>>
M(y, m) == <<y, m>>

\* a slip: the month wrapped around without the year moving on
AddMonths_NoCarry(start, offset) ==
    <<start[1], ((start[2] - 1 + offset) % 12) + 1>>

\* start + relativedelta(months=offset), formatted back to "%Y-%m"
AddMonths(start, offset) ==
    LET t == start[1] * 12 + (start[2] - 1) + offset
    IN  <<t \div 12, (t % 12) + 1>>

_month_range(start_month, months_ahead) ==
    [i \in 1..(months_ahead + 1) |-> AddMonths(start_month, i - 1)]

\* the values found under `key` for the months of `months`, in order
Candidates(md, item_id, months, key) ==
    LET present == SelectSeq(months, LAMBDA m : HasKey(md, m, item_id, key))
    IN  [i \in 1..Len(present) |-> Num(RawValue(md, present[i], item_id, key))]

\* a slip: the forecasts and the historical outgoing figures averaged together
calculate_usage_average_Mixed(md, item_id) ==
    LET candidates ==
            Candidates(md, item_id,
                <<M(2026, 1), M(2026, 2), M(2026, 3)>>, "usage_forecast")
            \o Candidates(md, item_id,
                <<M(2025, 10), M(2025, 11), M(2025, 12)>>, "outgoing")
    IN  IF candidates = <<>> THEN 0 ELSE SumSeq(candidates) \div Len(candidates)

\* lines 18-31
calculate_usage_average(md, item_id) ==
    LET forecast == Candidates(md, item_id,
                        <<M(2026, 1), M(2026, 2), M(2026, 3)>>, "usage_forecast")
        candidates ==
            IF forecast = <<>>
            THEN Candidates(md, item_id,
                     <<M(2025, 10), M(2025, 11), M(2025, 12)>>, "outgoing")
            ELSE forecast
    IN  IF candidates = <<>> THEN 0 ELSE SumSeq(candidates) \div Len(candidates)

\* lines 66-77: the key the incoming figure of a month is read from
IncomingKey(month) ==
    IF month = M(2026, 1) THEN "incoming_expected"
    ELSE IF month = M(2026, 2) THEN "arranged"
    ELSE "incoming"

\* a slip: a month without a usage forecast taken as a month without usage
Dw309Usage_ZeroDefault(md, month, item_id, usage_avg) ==
    Get(md, month, item_id, "usage_forecast", 0)

\* lines 68, 71, 74, 77: payload.get("使用量予測", usage_avg)
Dw309Usage(md, month, item_id, usage_avg) ==
    Get(md, month, item_id, "usage_forecast", usage_avg)

\* a slip: the order added to the incoming of every month
Dw309Incoming_EveryMonth(incoming, order_qty, index, n) ==
    incoming + order_qty

\* a slip: the order added to the incoming of the first month
Dw309Incoming_FirstMonth(incoming, order_qty, index, n) ==
    IF index = 1 THEN incoming + order_qty ELSE incoming

\* lines 79-80: the order is added to the incoming of the last month
\* (index counts from 1 here, n is len(months))
Dw309Incoming(incoming, order_qty, index, n) ==
    IF index = n THEN incoming + order_qty ELSE incoming

\* a slip: a projected stock below zero clamped to zero
Dw309MonthEnd_Clamped(month_start, incoming, usage) ==
    IF month_start + incoming - usage < 0 THEN 0 ELSE month_start + incoming - usage

\* line 82
Dw309MonthEnd(month_start, incoming, usage) ==
    month_start + incoming - usage

\* line 82 in binary64: the error of (month_start + incoming) - usage, two
\* rounded operations.  incoming is a whole number; usage is a whole number
\* or the quotient of line 31, the double nearest to the exact average.
Dw309MonthEndErr(month_start, err, incoming, usage) ==
    LET sum_err == Round64(month_start + incoming, err)
    IN  Round64(month_start + incoming - usage, sum_err - Round64(usage, 0))

\* a slip: the thresholds themselves counted as outside the safe range
Dw309Status_Inclusive(month_end, safety_stock, max_stock) ==
    IF month_end < 0 THEN "stockout"
    ELSE IF month_end <= safety_stock THEN "critical"
    ELSE IF month_end >= max_stock THEN "excess"
    ELSE "normal"

\* lines 84-91
Dw309Status(month_end, safety_stock, max_stock) ==
    IF month_end < 0 THEN "stockout"
    ELSE IF month_end < safety_stock THEN "critical"
    ELSE IF month_end > max_stock THEN "excess"
    ELSE "normal"

\* lines 65-103: one iteration, from the values read in lines 65-81.  `row` is
\* the row the code appends; `exact` records the unrounded month_start,
\* incoming, usage and month_end (the values of line 82) and the error of
\* the double month_end.
Dw309Pass(a, month, month_start, start_err, incoming, usage) ==
    Only({ [ row   |-> [ month       |-> month,
                         month_start |-> Round1(month_start),
                         incoming    |-> Round1(incoming),
                         usage       |-> Round1(usage),
                         month_end   |-> Round1(month_end),
                         status      |-> Dw309Status(Order64(month_end, err),
                                                     2 * Num(a.safety_stock),
                                                     2 * Num(a.max_stock)) ],
             exact |-> [ month_start |-> month_start, incoming |-> incoming,
                         usage |-> usage, month_end |-> month_end,
                         err |-> err ] ] :
           month_end \in {Dw309MonthEnd(month_start, incoming, usage)},
           err \in {Dw309MonthEndErr(month_start, start_err, incoming, usage)} })

\* lines 64-103: the loop from iteration `index` on.  `rows` is the list the
\* code appends to, `locals` the list of the `exact` records of the
\* iterations done.
RECURSIVE Dw309Loop(_, _, _, _, _, _, _, _)
Dw309Loop(md, a, months, usage_avg, index, month_start, rows, locals) ==
    IF index > Len(months)
    THEN [rows |-> rows, locals |-> locals, month_start |-> month_start]
    ELSE
        Only({ Only({ Dw309Loop(md, a, months, usage_avg, index + 1,
                                pass.exact.month_end,
                                Append(rows, pass.row),
                                Append(locals, pass.exact)) :
                      pass \in {Dw309Pass(a, months[index], month_start,
                                          IF index = 1 THEN 0
                                          ELSE locals[index - 1].err,
                                          incoming, usage)} }) :
               incoming \in {Dw309Incoming(
                                Get(md, months[index], a.item_id,
                                    IncomingKey(months[index]), 0),
                                Num(a.order_qty), index, Len(months))},
               usage \in {Dw309Usage(md, months[index], a.item_id, usage_avg)} })

\* a: [item_id, current_stock, safety_stock, max_stock, order_qty,
\*     start_month, months_ahead]
build_dw309_forecast(md, a) ==
    Only({ Only({ [ df      |-> done.rows,
                    locals  |-> done.locals,
                    summary |-> [ usage_avg       |-> usage_avg,
                                  final_month_end |-> done.month_start,
                                  final_month     |-> months[Len(months)] ] ] :
                  done \in {Dw309Loop(md, a, months, usage_avg, 1,
                                      Num(a.current_stock), <<>>, <<>>)} }) :
           months \in {_month_range(a.start_month, a.months_ahead)},
           usage_avg \in {calculate_usage_average(md, a.item_id)} })

\* a slip: the order added into the record of the last month itself, as
\* `+=` does to a mutable value
Dw309DataAfter_InPlace(md, a) ==
    LET months == _month_range(a.start_month, a.months_ahead)
        last   == months[Len(months)]
        key    == IncomingKey(last)
    IN  { IF e[1] = last /\ e[2] = a.item_id /\ e[3] = key
          THEN <<e[1], e[2], e[3], e[4] + a.order_qty>>
          ELSE e : e \in md }

\* monthly_data after the call.  The loop reads each record with .get (lines
\* 65-77) and assigns no key; `incoming += order_qty` (line 80) rebinds the
\* local name, the value being a number.
Dw309DataAfter(md, a) == md

-----------------------------------------------------------------------------
(* utils/forecast.py *)

\* monthly_data[month][item_id][key]: a KeyError when the key is not there
Has(md, month, item_id, keys) ==
    \A k \in keys : HasKey(md, month, item_id, k)

\* the row of one item, or the KeyError of lines 12-21
ForecastRow(md, item) ==
    LET id == item.item_id
    IN  IF ~( Has(md, M(2026, 1), id,
                  {"current_stock", "incoming_expected", "usage_forecast"})
              /\ Has(md, M(2026, 2), id, {"arranged", "usage_forecast"}) )
        THEN [raised |-> "KeyError"]
        ELSE
            LET current_stock == Get(md, M(2026, 1), id, "current_stock", 0)
                incoming      == Get(md, M(2026, 1), id, "incoming_expected", 0)
                usage_current == Get(md, M(2026, 1), id, "usage_forecast", 0)
                month_end_forecast == current_stock + incoming - usage_current
                prepared      == Get(md, M(2026, 2), id, "arranged", 0)
                usage_next    == Get(md, M(2026, 2), id, "usage_forecast", 0)
            IN  [ raised |-> "no",
                  item_id |-> id,
                  current_stock |-> current_stock,
                  incoming |-> incoming,
                  usage_current |-> usage_current,
                  month_end_forecast |-> month_end_forecast,
                  prepared |-> prepared,
                  usage_next |-> usage_next,
                  next_month_end_forecast |-> month_end_forecast + prepared - usage_next,
                  safety_stock |-> Num(item.safety_stock),
                  max_stock |-> Num(item.max_stock) ]

\* the DataFrame, one row per item, or the first KeyError
calculate_inventory_forecast(md, items) ==
    LET rows == [i \in 1..Len(items) |-> ForecastRow(md, items[i])]
    IN  IF \E i \in 1..Len(items) : rows[i].raised # "no"
        THEN [raised |-> "KeyError", rows |-> <<>>]
        ELSE [raised |-> "no", rows |-> rows]

\* app.py line 342: dict(zip(forecast_df[item], forecast_df[next month end])),
\* where a later row of the same item overwrites an earlier one
NextMonthForecast(forecast_df) ==
    [id \in {forecast_df[i].item_id : i \in 1..Len(forecast_df)} |->
        LET last == CHOOSE i \in 1..Len(forecast_df) :
                        /\ forecast_df[i].item_id = id
                        /\ \A j \in (i + 1)..Len(forecast_df) :
                               forecast_df[j].item_id # id
        IN  forecast_df[last].next_month_end_forecast]

-----------------------------------------------------------------------------
(* utils/order_planning.py *)

\* the six values are read with a default of 0, so none of them is None
calculate_normal_order_average(md, item_id) ==
    LET values ==
            [i \in 1..4 |-> Get(md, <<M(2025, 9), M(2025, 10), M(2025, 11),
                                      M(2025, 12)>>[i], item_id, "incoming", 0)]
            \o <<Get(md, M(2026, 1), item_id, "incoming_expected", 0)>>
            \o <<Get(md, M(2026, 2), item_id, "arranged", 0)>>
    IN  SumSeq(values) \div Len(values)

\* a slip: the usage of the month left out
calculate_future_inventory_NoUsage(next_month_end, order_qty, next_next_usage) ==
    next_month_end + order_qty

calculate_future_inventory(next_month_end, order_qty, next_next_usage) ==
    next_month_end + order_qty - next_next_usage

\* a slip: the thresholds themselves counted as outside the safe range
risk_level_Inclusive(next_next_end, safety_stock, max_stock) ==
    IF next_next_end <= safety_stock THEN "shortage"
    ELSE IF next_next_end >= max_stock THEN "excess"
    ELSE "normal"

risk_level(next_next_end, safety_stock, max_stock) ==
    IF next_next_end < safety_stock THEN "shortage"
    ELSE IF next_next_end > max_stock THEN "excess"
    ELSE "normal"

\* d.get(key, 0) on a dict item_id -> number
DictGet(d, key) == IF key \in DOMAIN d THEN d[key] ELSE 0

build_order_dataframe(items, md, next_month_forecast, orders) ==
    [i \in 1..Len(items) |->
        LET item_id         == items[i].item_id
            next_month_end  == DictGet(next_month_forecast, item_id)
            next_next_usage == Get(md, M(2026, 3), item_id, "usage_forecast", 0)
            order_qty       == Num(DictGet(orders, item_id))
        IN  [ item_id         |-> item_id,
              next_month_end  |-> next_month_end,
              next_next_usage |-> next_next_usage,
              order_qty       |-> order_qty,
              next_next_end   |-> calculate_future_inventory(
                                      next_month_end, order_qty, next_next_usage),
              safety_stock    |-> Num(items[i].safety_stock),
              max_stock       |-> Num(items[i].max_stock) ]]

\* the safety-factor slider moves in steps of 0.05: a factor is a number of
\* twentieths
FactorDen == 20

\* a slip: a stock equal to the safety stock counted as a shortage
ShortageCheck_Inclusive(next_next_end, safety_stock) == next_next_end <= safety_stock

\* line 86
ShortageCheck(next_next_end, safety_stock) == next_next_end < safety_stock

\* a slip: a stock equal to the max stock counted as an excess
ExcessCheck_Inclusive(next_next_end, max_stock) == next_next_end >= max_stock

\* line 89
ExcessCheck(next_next_end, max_stock) == next_next_end > max_stock

\* a slip: the same rule whether or not the average is 0
AbnormalOrderCheck_Symmetric(order_qty, normal_order_avg) ==
    order_qty = 0 \/ order_qty >= normal_order_avg * 2

\* lines 93-99
AbnormalOrderCheck(order_qty, normal_order_avg) ==
    IF normal_order_avg > 0
    THEN order_qty = 0 \/ order_qty >= normal_order_avg * 2
    ELSE order_qty = 0

\* The safety stocks (whole numbers) for which the product of line 101 is
\* tabulated below.
TabulatedStocks == {2, 3, 4, 50}

\* line 101 multiplies in binary64: safety_stock * factor is the double nearest
\* to the product of safety_stock and the double nearest to the factor.  For
\* each factor (in twentieths), the tabulated safety stocks whose double
\* product lies above the exact product; e.g. 50 * 1.1 = 55.00000000000001.
ProductRoundsUp ==
    [ f \in FactorDen..(FactorDen + FactorDen \div 2) |->
        CASE f = 21 -> {2, 3, 4}
          [] f = 22 -> {2, 3, 4, 50}
          [] f = 26 -> {2, 3, 4}
          [] f = 27 -> {2, 3, 4}
          [] OTHER  -> {} ]

\* line 101: next_month_buffer < safety_stock * factor, for a whole-number
\* buffer and a tabulated safety stock.  The double product is within 1e-13
\* of the exact one, so the comparison differs from the exact comparison only
\* when the buffer equals the exact product and the double lies above it.
NextMonthCheck(next_month_buffer, safety_stock, factor) ==
    LET stock == CHOOSE v \in TabulatedStocks : Num(v) = safety_stock
    IN  \/ next_month_buffer * FactorDen < safety_stock * factor
        \/ /\ next_month_buffer * FactorDen = safety_stock * factor
           /\ stock \in ProductRoundsUp[factor]

\* a slip: the priority overwritten by the last check that fired
Fire_Overwrite(acc, fired, tag, prio) ==
    IF fired
    THEN [reasons |-> Append(acc.reasons, tag), priority |-> prio]
    ELSE acc

\* one check of lines 86-103: append the tag and lower the priority
Fire(acc, fired, tag, prio) ==
    IF fired
    THEN [reasons |-> Append(acc.reasons, tag), priority |-> Min(acc.priority, prio)]
    ELSE acc

\* a slip: the sentinel 99 returned as it is
FinalPriority_Sentinel(priority) == priority

\* lines 105-106: the sentinel 99, left when no check fired, becomes 4
FinalPriority(priority) == IF priority = 99 THEN 4 ELSE priority

discussion_reasons(row, normal_order_avg, next_month_buffer, factor) ==
    LET c0 == [reasons |-> <<>>, priority |-> 99]
        c1 == Fire(c0, ShortageCheck(row.next_next_end, row.safety_stock),
                   "shortage_risk", 1)
        c2 == Fire(c1, ExcessCheck(row.next_next_end, row.max_stock),
                   "excess_risk", 2)
        c3 == Fire(c2, AbnormalOrderCheck(row.order_qty, normal_order_avg),
                   "abnormal_order", 3)
        c4 == Fire(c3, NextMonthCheck(next_month_buffer, row.safety_stock, factor),
                   "next_month_short", 3)
    IN  [ priority |-> FinalPriority(c4.priority),
          reasons  |-> c4.reasons ]

-----------------------------------------------------------------------------
(* app.py, order planning of the normal items *)

\* order_df["risk"] = order_df.apply(risk_level ...)
WithRisk(df) ==
    [i \in 1..Len(df) |->
        [ item_id         |-> df[i].item_id,
          next_month_end  |-> df[i].next_month_end,
          next_next_usage |-> df[i].next_next_usage,
          order_qty       |-> df[i].order_qty,
          next_next_end   |-> df[i].next_next_end,
          safety_stock    |-> df[i].safety_stock,
          max_stock       |-> df[i].max_stock,
          risk |-> risk_level(df[i].next_next_end, df[i].safety_stock,
                              df[i].max_stock) ]]

\* lines 347-351: the checks of one row of the order table
RowReasons(md, row, factor) ==
    discussion_reasons(row, calculate_normal_order_average(md, row.item_id),
                       row.next_month_end, factor)

\* a slip: every row appended, with or without reasons
Listed_Always(reasons) == TRUE

\* line 352: only a row with reasons is appended
Listed(reasons) == reasons # <<>>

\* lines 345-368; the display name of the item is left out of the row, and
\* the reasons are kept as a list instead of joined with " / "
RECURSIVE build_discussion_rows(_, _, _, _, _)
build_discussion_rows(md, source_df, factor, index, rows) ==
    IF index > Len(source_df)
    THEN rows
    ELSE
        LET row == source_df[index]
            r   == RowReasons(md, row, factor)
        IN  build_discussion_rows(md, source_df, factor, index + 1,
                IF Listed(r.reasons)
                THEN Append(rows,
                        [ priority        |-> r.priority,
                          item_id         |-> row.item_id,
                          next_month_end  |-> row.next_month_end,
                          next_next_usage |-> row.next_next_usage,
                          order_qty       |-> row.order_qty,
                          next_next_end   |-> row.next_next_end,
                          risk            |-> row.risk,
                          reasons         |-> r.reasons,
                          safety_stock    |-> row.safety_stock,
                          max_stock       |-> row.max_stock ])
                ELSE rows)

-----------------------------------------------------------------------------
(* utils/prediction_review.py *)

\* the keys of monthly_data.get(month, {}): the items with a record that month
MonthItems(md, month) == {e[2] : e \in {x \in md : x[1] = month}}

\* the integer nearest to n / d (d # 0), a tie going to the even one
RoundHalfEven(n, d) ==
    LET n1 == IF d < 0 THEN 0 - n ELSE n
        d1 == IF d < 0 THEN 0 - d ELSE d
        fl == n1 \div d1
        r  == n1 - fl * d1
    IN  IF 2 * r > d1 \/ (2 * r = d1 /\ fl % 2 = 1) THEN fl + 1 ELSE fl

\* a slip: the magnitude of the error, its sign dropped
ErrorRate_Unsigned(diff, predicted_usage) ==
    IF predicted_usage # 0
    THEN RoundHalfEven(1000 * (IF diff < 0 THEN 0 - diff ELSE diff),
                       IF predicted_usage < 0 THEN 0 - predicted_usage
                       ELSE predicted_usage) * (Scale \div 10)
    ELSE 0

\* a slip: the rate of an item with no predicted usage reported as 100
ErrorRate_NoGuard(diff, predicted_usage) ==
    IF predicted_usage # 0
    THEN RoundHalfEven(1000 * diff, predicted_usage) * (Scale \div 10)
    ELSE Num(100)

\* lines 22 and 28: round(diff / predicted_usage * 100, 1), or 0 when the
\* predicted usage is 0.  round() of a double goes to the nearest tenth; on a
\* tie of the exact quotient the double decides, which is half-to-even for
\* the quotients of the data modelled here.
ErrorRate(diff, predicted_usage) ==
    IF predicted_usage # 0
    THEN RoundHalfEven(1000 * diff, predicted_usage) * (Scale \div 10)
    ELSE 0

\* a slip: the usage read from the stored outgoing field
AccuracyUsage_Stored(md, month, item_id, start_stock, incoming, ending) ==
    Get(md, month, item_id, "outgoing", 0)

\* lines 19-20: usage = start + incoming - ending
AccuracyUsage(md, month, item_id, start_stock, incoming, ending) ==
    start_stock + incoming - ending

\* lines 13-33: the row of one item of the reviewed month
AccuracyRow(md, last_month, item_id) ==
    LET previous_month  == M(2025, 11)
        start_stock     == Get(md, previous_month, item_id, "stock", 0)
        incoming        == Get(md, last_month, item_id, "incoming", 0)
        predicted_stock == Get(md, last_month, item_id, "predicted_stock", 0)
        actual_stock    == Get(md, last_month, item_id, "stock", 0)
        predicted_usage == AccuracyUsage(md, last_month, item_id,
                                         start_stock, incoming, predicted_stock)
        actual_usage    == AccuracyUsage(md, last_month, item_id,
                                         start_stock, incoming, actual_stock)
        diff            == actual_usage - predicted_usage
    IN  [ item            |-> item_id,
          predicted_usage |-> predicted_usage,
          actual_usage    |-> actual_usage,
          diff            |-> diff,
          error_rate      |-> ErrorRate(diff, predicted_usage),
          predicted_stock |-> predicted_stock,
          actual_stock    |-> actual_stock ]

\* lines 8-35.  The rows come in the order of the items in the JSON file,
\* which the set of entries does not keep: the table is held as a function
\* from the item to its row.
calculate_prediction_accuracy(md, last_month) ==
    [ item_id \in MonthItems(md, last_month) |-> AccuracyRow(md, last_month, item_id) ]

-----------------------------------------------------------------------------
(* app.py, one run of the script through the order-planning section          *)
(* (lines 326-665) and the sidebar's JSON save (lines 834-842).  Streamlit   *)
(* runs the script from top to bottom once for every event of the page; a    *)
(* button returns True only in the run its click caused.  The section is     *)
(* taken in its item-detail mode, the mode a session starts in; in the       *)
(* overview mode the editor's table replaces the orders at the same point    *)
(* of the run (line 557).                                                    *)

Max(a, b) == IF a > b THEN a ELSE b

\* round(x) of a model number x: the nearest integer, a tie going to the even one
PyRound(x) == RoundHalfEven(x, Scale) * Scale

\* line 392-396: the demo's discussion targets that are normal items (the
\* fallback slice is empty, the list having two entries when it is measured)
DemoTargets(item_ids) == {"DW-005", "DW-012"} \cap item_ids

\* lines 407-424: the demo's order of one normal item, as an int
DemoOrder(md, item, next_month_forecast, targets) ==
    LET item_id         == item.item_id
        next_month_end  == DictGet(next_month_forecast, item_id)
        next_next_usage == Get(md, M(2026, 3), item_id, "usage_forecast", 0)
        safety_stock    == Num(item.safety_stock)
        max_stock       == Num(item.max_stock)
        min_order  == Max(0, safety_stock - next_month_end + next_next_usage)
        max_order  == Max(0, max_stock - next_month_end + next_next_usage)
        target_end == (safety_stock + max_stock) \div 2
        q0  == Max(0, PyRound(target_end - next_month_end + next_next_usage))
        q1  == Min(Max(q0, min_order), max_order)
        avg == calculate_normal_order_average(md, item_id)
        q2  == IF avg > 0 /\ q1 >= avg * 2
               THEN Max(0, RoundHalfEven(3 * avg, 2 * Scale) * Scale)
               ELSE q1
        q3  == IF item_id \in targets THEN 0 ELSE q2
    IN  Max(q3, 0) \div Scale

\* a slip: the reset button left without its recalculation
Recalculates_NotOnReset(kind) == kind \in {"recalc", "demo"}

\* lines 484-493: the runs that recalculate before the slider is drawn, the
\* recalc button's (recalc_clicked) and the demo's and the reset's (auto_recalc)
Recalculates(kind) == kind \in {"recalc", "demo", "reset"}

\* a slip: the comments written on every run that draws a changed comment box
WritesComments_OnType(kind) == kind \in {"save_comment", "type"}

\* lines 627-632: json.dump to data/comments.json stands under the save button
WritesComments(kind) == kind = "save_comment"

\* line 342: the next-month forecast of every item, by item
SessionForecast(md, items) ==
    NextMonthForecast(calculate_inventory_forecast(md, items).rows)

\* lines 373-385 and 464-479: the discussion list of the given orders and
\* factor, with the run's next-month forecast
DiscussionListWith(md, items, next_month_forecast, orders, factor) ==
    build_discussion_rows(md,
        WithRisk(build_order_dataframe(items, md, next_month_forecast, orders)),
        factor, 1, <<>>)

\* the same, the forecast computed from the data (lines 248 and 342)
DiscussionList(md, items, orders, factor) ==
    DiscussionListWith(md, items, SessionForecast(md, items), orders, factor)

-----------------------------------------------------------------------------
(* Bounds and input sets of the projection runs *)

MaxMonthsAhead == 4
MaxOrder == 2

DW309 == "DW-309-Mol"

PastMonths  == {M(2025, 10), M(2025, 11), M(2025, 12)}

\* a set of entries from a choice f of at most one value per month
Entries(f, key) ==
    UNION { { <<m, DW309, key, v>> : v \in f[m] } : m \in DOMAIN f }

NoCall == [called |-> FALSE]

\* nothing called yet
DwIdle ==
    /\ dw_args = NoCall
    /\ dw_df = <<>>
    /\ dw_locals = <<>>
    /\ dw_summary = NoCall

DrIdle ==
    /\ dr_args = NoCall
    /\ dr_result = NoCall

PaIdle ==
    /\ pa_args = NoCall
    /\ accuracy_df = <<>>

\* no session opened
SsIdle ==
    /\ ss_orders = <<>>
    /\ ss_safety_factor = 0
    /\ ss_applied_orders = <<>>
    /\ ss_applied_safety_factor = 0
    /\ ss_discussion_items = <<>>
    /\ ss_comments = <<>>
    /\ order_detail_item = ""
    /\ decision_comment = ""
    /\ notice_shown = FALSE
    /\ comments_file = <<>>
    /\ snapshot_file = NoCall
    /\ run = NoCall

RpIdle == repeat = NoCall

AppIdle ==
    /\ calculation_results = <<>>
    /\ uploaded = NoCall

ExtIdle ==
    /\ PaIdle
    /\ forecast_result = NoCall
    /\ SsIdle
    /\ RpIdle
    /\ AppIdle

OdIdle ==
    /\ master_items = <<>>
    /\ od_args = NoCall
    /\ order_df = <<>>
    /\ discussion_rows = <<>>

\* Forecasts of 2026-01..03 and incoming of 2026-01 and 2026-02 are each
\* present or not; 2026-04 has a whole record or none; the months after it
\* have none; the outgoing of 2025-10..12 is present or not.
InitDw309 ==
    /\ \E fu \in [{M(2026, 1), M(2026, 2), M(2026, 3)} -> {{}, {1}, {2}}],
          fi \in [{M(2026, 1), M(2026, 2)} -> {{}, {2}}],
          april \in {{}, { <<M(2026, 4), DW309, "usage_forecast", 1>>,
                          <<M(2026, 4), DW309, "incoming", 2>> }},
          fp \in [PastMonths -> {{}, {1}, {2}}] :
          /\ fp[M(2025, 10)] # {1}
          /\ fp[M(2025, 11)] # {2}
          /\ fp[M(2025, 12)] # {2}
          /\ monthly_data =
                Entries(fu, "usage_forecast")
                \cup Entries([m \in {M(2026, 1)} |-> fi[m]], "incoming_expected")
                \cup Entries([m \in {M(2026, 2)} |-> fi[m]], "arranged")
                \cup april
                \cup Entries(fp, "outgoing")
    /\ DwIdle
    /\ DrIdle
    /\ ExtIdle
    /\ OdIdle

\* a call of build_dw309_forecast(monthly_data, a.item_id, ...) and its results
Dw309Call(a) ==
    LET r == build_dw309_forecast(monthly_data, a)
    IN  /\ dw_args' = a
        /\ dw_df' = r.df
        /\ dw_locals' = r.locals
        /\ dw_summary' = r.summary
        /\ UNCHANGED <<monthly_data, drVars, odVars, extVars>>

Dw309Args(cs, safety, max, q, start, n) ==
    [ called |-> TRUE, item_id |-> DW309, current_stock |-> cs,
      safety_stock |-> safety, max_stock |-> max, order_qty |-> q,
      start_month |-> start, months_ahead |-> n ]

\* One call of build_dw309_forecast on the loaded data.  The function reads
\* nothing but its arguments, so a second call reaches no state a first call
\* does not reach; the guard keeps the run to one call.
CallBuildDw309 ==
    /\ dw_args = NoCall
    /\ \E cs \in {0, 3, 7}, q \in 0..MaxOrder, n \in 0..MaxMonthsAhead :
          Dw309Call(Dw309Args(cs, 2, 5, q, M(2026, 1), n))

NextDw309 == CallBuildDw309

SpecDw309 == InitDw309 /\ [][NextDw309]_vars

-----------------------------------------------------------------------------
(* The end-to-end example of the specification: seven months 2026-01..07,  *)
(* (incoming, usage) = (20, 30) six times and (0, 30) in the last month.   *)

ExampleOrderLow  == 130
ExampleOrderHigh == 60

ExampleData ==
    { <<M(2026, m), DW309, "usage_forecast", 30>> : m \in 1..7 }
    \cup { <<M(2026, 1), DW309, "incoming_expected", 20>>,
           <<M(2026, 2), DW309, "arranged", 20>>,
           <<M(2026, 7), DW309, "incoming", 0>> }
    \cup { <<M(2026, m), DW309, "incoming", 20>> : m \in 3..6 }

InitExample ==
    /\ monthly_data = ExampleData
    /\ DwIdle
    /\ DrIdle
    /\ ExtIdle
    /\ OdIdle

\* one call on the example data; the core takes any number as the order,
\* negative ones included
CallExample ==
    /\ dw_args = NoCall
    /\ \E q \in (0 - ExampleOrderLow)..ExampleOrderHigh :
          Dw309Call(Dw309Args(200, 100, 500, q, M(2026, 1), 6))

NextExample == CallExample

SpecExample == InitExample /\ [][NextExample]_vars

-----------------------------------------------------------------------------
(* Horizons of the projection: other start months and up to MaxHorizon      *)
(* months ahead, the default call of app.py 712-719 (2026-01, 7) included   *)

MaxHorizon == 13

StartMonths == {M(2025, 11), M(2025, 12), M(2026, 1), M(2026, 6)}

InitHorizon ==
    /\ monthly_data \in
          { ExampleData,
            { <<M(2026, 8), DW309, "incoming", 1>>,
              <<M(2026, 1), DW309, "usage_forecast", 1>> } }
    /\ DwIdle
    /\ DrIdle
    /\ ExtIdle
    /\ OdIdle

\* one call, the start month and the horizon given or left to their defaults
CallBuildDw309Horizon ==
    /\ dw_args = NoCall
    /\ \E start \in StartMonths, n \in 0..MaxHorizon, q \in {0, 2} :
          Dw309Call(Dw309Args(3, 2, 5, q, start, n))

NextHorizon == CallBuildDw309Horizon

SpecHorizon == InitHorizon /\ [][NextHorizon]_vars

-----------------------------------------------------------------------------
(* Calls of risk_level and discussion_reasons on one row *)

MaxStock == 5

\* normal-order averages, in sixths (the mean of six integers)
AvgSixths == {0, 1, 3, 4, 6, 7}

\* (safety, max) pairs: the usual order, equal thresholds, and max < safety,
\* which the master file does not rule out
Thresholds == {<<2, 4>>, <<3, 3>>, <<4, 2>>, <<50, 60>>}

\* the stocks tried against a pair of thresholds: all the small ones, and for
\* the safety stock of 50 the values around 50 * 1.1
EndStocks(th) == IF th[1] <= MaxStock THEN (0 - 1)..MaxStock ELSE {th[1]}

Buffers(th) == IF th[1] <= MaxStock THEN 0..MaxStock ELSE {54, 55, 56}

\* the positions of the slider: 1.0, 1.05, ... 1.5
Factors == FactorDen..(FactorDen + FactorDen \div 2)

InitReasons ==
    /\ monthly_data = {}
    /\ DwIdle
    /\ DrIdle
    /\ ExtIdle
    /\ OdIdle

\* risk_level and discussion_reasons applied to one row.  Both read their
\* arguments only, so the run is kept to one call.
CallDiscussionReasons ==
    /\ dr_args = NoCall
    /\ \E th \in Thresholds, q \in 0..MaxOrder, avg \in AvgSixths,
          factor \in Factors :
       \E e \in EndStocks(th), buffer \in Buffers(th) :
        LET row == [ next_next_end |-> Num(e), safety_stock |-> Num(th[1]),
                     max_stock |-> Num(th[2]), order_qty |-> Num(q) ]
            normal_order_avg == Num(avg) \div 6
            r == discussion_reasons(row, normal_order_avg, Num(buffer), factor)
        IN  /\ dr_args' = [ called |-> TRUE, row |-> row,
                            normal_order_avg |-> normal_order_avg,
                            next_month_buffer |-> Num(buffer), factor |-> factor ]
            /\ dr_result' = [ risk |-> risk_level(row.next_next_end,
                                          row.safety_stock, row.max_stock),
                              priority |-> r.priority, reasons |-> r.reasons ]
            /\ UNCHANGED <<monthly_data, dwVars, odVars, extVars>>

NextReasons == CallDiscussionReasons

SpecReasons == InitReasons /\ [][NextReasons]_vars

-----------------------------------------------------------------------------
(* The order table and the discussion list of two normal items *)

NormalItems ==
    << [item_id |-> "DW-001", safety_stock |-> 2, max_stock |-> 4],
       [item_id |-> "DW-002", safety_stock |-> 3, max_stock |-> 3] >>

ItemIds == {NormalItems[i].item_id : i \in 1..Len(NormalItems)}

\* the records of one item: complete for 2026-01 and 2026-02, the rest optional
ItemData(id, cs, ie, ar, u3, past) ==
    { <<M(2026, 1), id, "current_stock", cs>>,
      <<M(2026, 1), id, "incoming_expected", ie>>,
      <<M(2026, 1), id, "usage_forecast", 1>>,
      <<M(2026, 2), id, "arranged", ar>>,
      <<M(2026, 2), id, "usage_forecast", 2>> }
    \cup { <<M(2026, 3), id, "usage_forecast", v>> : v \in u3 }
    \cup { <<M(2025, 9), id, "incoming", v>> : v \in past }

ItemDataSets(id, arranged, pasts) ==
    { ItemData(id, cs, ie, ar, u3, past) :
        cs \in {3, 5}, ie \in {0, 2}, ar \in arranged, u3 \in {{}, {2}},
        past \in pasts }

InitOrder ==
    /\ \E d1 \in ItemDataSets("DW-001", {0, 2}, {{}, {4}}),
          d2 \in ItemDataSets("DW-002", {0}, {{}}) :
          monthly_data = d1 \cup d2
    /\ master_items = NormalItems
    /\ od_args = NoCall
    /\ order_df = <<>>
    /\ discussion_rows = <<>>
    /\ DwIdle
    /\ DrIdle
    /\ ExtIdle

\* app.py lines 248, 342, 466-479: the order table of the given orders, its
\* risk column, and the discussion list built from it
CallBuildDiscussionRows ==
    /\ od_args = NoCall
    /\ \E orders \in [ItemIds -> 0..MaxOrder], factor \in {20, 24, 30} :
        LET forecast == calculate_inventory_forecast(monthly_data, master_items)
            df == WithRisk(build_order_dataframe(master_items, monthly_data,
                               NextMonthForecast(forecast.rows), orders))
        IN  /\ forecast.raised = "no"
            /\ od_args' = [called |-> TRUE, orders |-> orders, factor |-> factor]
            /\ order_df' = df
            /\ discussion_rows' = build_discussion_rows(monthly_data, df, factor, 1, <<>>)
            /\ UNCHANGED <<monthly_data, master_items, dwVars, drVars, extVars>>

NextOrder == CallBuildDiscussionRows

SpecOrder == InitOrder /\ [][NextOrder]_vars

-----------------------------------------------------------------------------
(* The review of last month's prediction (app.py line 140) *)

\* one optional field of a record
Field(month, id, key, vs) == { <<month, id, key, v>> : v \in vs }

\* The first item: the closing stock of 2025-11 and the 2025-12 figures, each
\* present or not.  100, 20, 90, 80 is the worked example; 104 against 103
\* gives a predicted usage of 16 and a rate of 6.25 before rounding; 120
\* gives a predicted usage of 0; 130 gives a negative usage.
AccuracyData1 ==
    { Field(M(2025, 11), "DW-001", "stock", st)
        \cup Field(M(2025, 12), "DW-001", "incoming", inc)
        \cup Field(M(2025, 12), "DW-001", "predicted_stock", ps)
        \cup Field(M(2025, 12), "DW-001", "stock", as)
        \cup Field(M(2025, 12), "DW-001", "outgoing", og) :
        st \in {{}, {100}}, inc \in {{}, {20}}, ps \in {{}, {90}, {104}, {120}},
        as \in {{}, {80}, {103}, {130}}, og \in {{}, {35}} }

\* the second item: no record at all, or one whose predicted usage is 0
AccuracyData2 ==
    { {},
      { <<M(2025, 11), "DW-002", "stock", 3>>,
        <<M(2025, 12), "DW-002", "predicted_stock", 3>>,
        <<M(2025, 12), "DW-002", "stock", 1>> } }

InitAccuracy ==
    /\ \E d1 \in AccuracyData1, d2 \in AccuracyData2 : monthly_data = d1 \cup d2
    /\ DwIdle
    /\ DrIdle
    /\ OdIdle
    /\ ExtIdle

\* app.py line 140.  The function reads the loaded data only, so the run is
\* kept to one call.
CallPredictionAccuracy ==
    /\ pa_args = NoCall
    /\ pa_args' = [called |-> TRUE, last_month |-> M(2025, 12)]
    /\ accuracy_df' = calculate_prediction_accuracy(monthly_data, M(2025, 12))
    /\ UNCHANGED <<monthly_data, dwVars, drVars, odVars, forecast_result,
                   ssVars, fileVars, run, repeat, appVars>>

NextAccuracy == CallPredictionAccuracy

SpecAccuracy == InitAccuracy /\ [][NextAccuracy]_vars

-----------------------------------------------------------------------------
(* The review called for other months than the default *)

\* the months a caller may pass as last_month
ReviewMonths == {M(2025, 11), M(2025, 12), M(2026, 1)}

\* one item with its closing stock of 2025-10, 2025-11 and 2025-12, the
\* predicted stock of 2025-11 and 2025-12 and the incoming of 2025-12, each
\* present or not
AccuracyMonthData ==
    { Field(M(2025, 10), "DW-001", "stock", s10)
        \cup Field(M(2025, 11), "DW-001", "stock", s11)
        \cup Field(M(2025, 11), "DW-001", "predicted_stock", p11)
        \cup Field(M(2025, 12), "DW-001", "stock", s12)
        \cup Field(M(2025, 12), "DW-001", "predicted_stock", p12)
        \cup Field(M(2025, 12), "DW-001", "incoming", i12) :
        s10 \in {{}, {100}}, s11 \in {{}, {90}}, p11 \in {{}, {95}},
        s12 \in {{}, {70}}, p12 \in {{}, {80}}, i12 \in {{}, {20}} }

InitAccuracyMonth ==
    /\ monthly_data \in AccuracyMonthData
    /\ DwIdle
    /\ DrIdle
    /\ OdIdle
    /\ ExtIdle

\* calculate_prediction_accuracy(monthly_data, last_month) for a month of the
\* caller's choice (the signature of line 8)
CallPredictionAccuracyFor ==
    /\ pa_args = NoCall
    /\ \E last_month \in ReviewMonths :
          /\ pa_args' = [called |-> TRUE, last_month |-> last_month]
          /\ accuracy_df' = calculate_prediction_accuracy(monthly_data, last_month)
    /\ UNCHANGED <<monthly_data, dwVars, drVars, odVars, forecast_result,
                   ssVars, fileVars, run, repeat, appVars>>

NextAccuracyMonth == CallPredictionAccuracyFor

SpecAccuracyMonth == InitAccuracyMonth /\ [][NextAccuracyMonth]_vars

-----------------------------------------------------------------------------
(* The month-end forecast of the normal items on partial data (app.py 248) *)

\* the five figures the forecast reads for the first item, each present or not
ForecastData1 ==
    { Field(M(2026, 1), "DW-001", "current_stock", cs)
        \cup Field(M(2026, 1), "DW-001", "incoming_expected", ie)
        \cup Field(M(2026, 1), "DW-001", "usage_forecast", u1)
        \cup Field(M(2026, 2), "DW-001", "arranged", ar)
        \cup Field(M(2026, 2), "DW-001", "usage_forecast", u2) :
        cs \in {{}, {3}, {5}}, ie \in {{}, {2}}, u1 \in {{}, {1}},
        ar \in {{}, {2}}, u2 \in {{}, {2}} }

\* the second item: complete, or without its 2026-02 record, or without any
ForecastData2 ==
    { ItemData("DW-002", 3, 0, 0, {}, {}),
      { e \in ItemData("DW-002", 3, 0, 0, {}, {}) : e[1] = M(2026, 1) },
      {} }

InitForecast ==
    /\ \E d1 \in ForecastData1, d2 \in ForecastData2 : monthly_data = d1 \cup d2
    /\ master_items = NormalItems
    /\ od_args = NoCall
    /\ order_df = <<>>
    /\ discussion_rows = <<>>
    /\ DwIdle
    /\ DrIdle
    /\ ExtIdle

\* app.py line 248; the run is kept to one call
CallInventoryForecast ==
    /\ forecast_result = NoCall
    /\ forecast_result' = calculate_inventory_forecast(monthly_data, master_items)
    /\ UNCHANGED <<monthly_data, dwVars, drVars, odVars, paVars,
                   ssVars, fileVars, run, repeat, appVars>>

NextForecast == CallInventoryForecast

SpecForecast == InitForecast /\ [][NextForecast]_vars

-----------------------------------------------------------------------------
(* The two projections of one item: build_dw309_forecast and               *)
(* calculate_inventory_forecast on the same complete records                *)

MaxPathMonths == 3

PathItems == << [item_id |-> "DW-001", safety_stock |-> 2, max_stock |-> 4] >>

InitPaths ==
    /\ monthly_data \in ItemDataSets("DW-001", {0, 2}, {{}})
    /\ master_items = PathItems
    /\ od_args = NoCall
    /\ order_df = <<>>
    /\ discussion_rows = <<>>
    /\ DwIdle
    /\ DrIdle
    /\ ExtIdle

\* build_dw309_forecast for the item, from 2026-01, started from the current
\* stock of the data or from another stock
CallBuildDw309Paths ==
    /\ dw_args = NoCall
    /\ \E extra \in {0, 1}, q \in 0..MaxOrder, n \in 0..MaxPathMonths :
          Dw309Call([ called |-> TRUE, item_id |-> PathItems[1].item_id,
                      current_stock |->
                          RawValue(monthly_data, M(2026, 1), PathItems[1].item_id,
                                   "current_stock") + extra,
                      safety_stock |-> PathItems[1].safety_stock,
                      max_stock |-> PathItems[1].max_stock, order_qty |-> q,
                      start_month |-> M(2026, 1), months_ahead |-> n ])

NextPaths ==
    \/ CallBuildDw309Paths
    \/ CallInventoryForecast

SpecPaths == InitPaths /\ [][NextPaths]_vars

-----------------------------------------------------------------------------
(* app.py, section 4: the long-lead item (lines 687-759) *)

\* lines 734-753: the overall risk, from the 月末📊 column of the table (the
\* rounded month-ends) and the final month-end of the summary (a double)
OverallRisk(df, final_month_end, final_err, safety_stock, max_stock) ==
    LET below_safety == \E i \in 1..Len(df) : df[i].month_end < Num(safety_stock)
        above_max    == Order64(final_month_end, final_err) > 2 * Num(max_stock)
    IN  IF below_safety THEN "shortage"
        ELSE IF above_max THEN "excess"
        ELSE "normal"

LongLeadItems == << [item_id |-> DW309, safety_stock |-> 2, max_stock |-> 4] >>

\* The records of the long-lead item: its current stock, the outgoing of
\* 2025-10..12 (0, 0 and 1 or 3: an average usage of 1/3 or 1), and an
\* incoming in 2026-04 and in 2026-07, each present or not.
LongLeadData ==
    { { <<M(2026, 1), DW309, "current_stock", cs>>,
        <<M(2025, 10), DW309, "outgoing", 0>>,
        <<M(2025, 11), DW309, "outgoing", 0>>,
        <<M(2025, 12), DW309, "outgoing", og>> }
        \cup Field(M(2026, 4), DW309, "incoming", i4)
        \cup Field(M(2026, 7), DW309, "incoming", i7) :
        cs \in 2..5, og \in {1, 3}, i4 \in {{}, {2}}, i7 \in {{}, {1}} }

InitLongLead ==
    /\ monthly_data \in LongLeadData
    /\ master_items = LongLeadItems
    /\ od_args = NoCall
    /\ order_df = <<>>
    /\ discussion_rows = <<>>
    /\ DwIdle
    /\ DrIdle
    /\ ExtIdle

\* One run of the section for an order quantity entered in the number input
\* (line 706, min_value 0): the projection over the default horizon, the
\* overall risk, and the entry of calculation_results (lines 756-759).
RunLongLeadSection ==
    /\ dw_args = NoCall
    /\ \E i \in 1..Len(master_items) : master_items[i].item_id = DW309
    /\ \E dw309_order_qty \in 0..MaxOrder :
        LET dw309_item    == master_items[CHOOSE i \in 1..Len(master_items) :
                                              master_items[i].item_id = DW309]
            current_stock == IF HasKey(monthly_data, M(2026, 1), DW309, "current_stock")
                             THEN RawValue(monthly_data, M(2026, 1), DW309,
                                           "current_stock")
                             ELSE 0
            a == Dw309Args(current_stock, dw309_item.safety_stock,
                           dw309_item.max_stock, dw309_order_qty, M(2026, 1), 7)
            r == build_dw309_forecast(monthly_data, a)
            risk == OverallRisk(r.df, r.summary.final_month_end,
                                r.locals[Len(r.locals)].err,
                                dw309_item.safety_stock, dw309_item.max_stock)
        IN  /\ dw_args' = a
            /\ dw_df' = r.df
            /\ dw_locals' = r.locals
            /\ dw_summary' = r.summary
            /\ calculation_results' =
                  [id \in {DW309} |->
                      [ next_next_end |-> Round1(r.summary.final_month_end),
                        risk |-> risk ]]
    /\ UNCHANGED <<monthly_data, drVars, odVars, paVars, forecast_result,
                   ssVars, fileVars, run, repeat, uploaded>>

NextLongLead == RunLongLeadSection

SpecLongLead == InitLongLead /\ [][NextLongLead]_vars

-----------------------------------------------------------------------------
(* The five calculations called twice with the same arguments *)

Functions ==
    { "build_dw309_forecast", "calculate_inventory_forecast",
      "build_order_dataframe", "discussion_reasons",
      "calculate_prediction_accuracy" }

RepeatItems == << [item_id |-> "DW-001", safety_stock |-> 2, max_stock |-> 4] >>

\* the records of the item: 2026-01 and 2026-02 complete, a forecast for
\* 2026-03, and the stocks of 2025-11 and 2025-12
RepeatData ==
    { ItemData("DW-001", 5, 2, ar, {2}, {4})
        \cup { <<M(2025, 11), "DW-001", "stock", 100>>,
               <<M(2025, 12), "DW-001", "stock", 80>>,
               <<M(2025, 12), "DW-001", "predicted_stock", 90>> } :
        ar \in {0, 2} }

InitRepeat ==
    /\ monthly_data \in RepeatData
    /\ master_items = RepeatItems
    /\ od_args = NoCall
    /\ order_df = <<>>
    /\ discussion_rows = <<>>
    /\ DwIdle
    /\ DrIdle
    /\ PaIdle
    /\ forecast_result = NoCall
    /\ SsIdle
    /\ repeat = [f \in Functions |-> NoCall]
    /\ AppIdle

\* what the function returns for the arguments, on the data as they are now
Returned(f, args) ==
    CASE f = "build_dw309_forecast" ->
            build_dw309_forecast(monthly_data, args)
      [] f = "calculate_inventory_forecast" ->
            calculate_inventory_forecast(monthly_data, master_items)
      [] f = "build_order_dataframe" ->
            build_order_dataframe(master_items, monthly_data,
                                  args.next_month_forecast, args.orders)
      [] f = "discussion_reasons" ->
            discussion_reasons(args.row, args.normal_order_avg,
                               args.next_month_buffer, args.factor)
      [] f = "calculate_prediction_accuracy" ->
            calculate_prediction_accuracy(monthly_data, args.last_month)

\* monthly_data after the call: the four other functions read it with .get
\* or subscripts, in expressions only
DataAfter(f, args) ==
    IF f = "build_dw309_forecast"
    THEN Dw309DataAfter(monthly_data, args)
    ELSE monthly_data

\* the arguments a caller passes besides the loaded data
ArgsOf(f) ==
    LET id       == RepeatItems[1].item_id
        forecast == SessionForecast(monthly_data, master_items)
    IN  CASE f = "build_dw309_forecast" ->
                { [ called |-> TRUE, item_id |-> id, current_stock |-> 5,
                    safety_stock |-> 2, max_stock |-> 4, order_qty |-> q,
                    start_month |-> M(2026, 1), months_ahead |-> 1 ] :
                  q \in 0..1 }
          [] f = "calculate_inventory_forecast" -> { [called |-> TRUE] }
          [] f = "build_order_dataframe" ->
                { [ called |-> TRUE, next_month_forecast |-> forecast,
                    orders |-> [i \in {id} |-> q] ] : q \in 0..1 }
          [] f = "discussion_reasons" ->
                { [ called |-> TRUE,
                    row |-> build_order_dataframe(master_items, monthly_data,
                                forecast, [i \in {id} |-> q])[1],
                    normal_order_avg |->
                        calculate_normal_order_average(monthly_data, id),
                    next_month_buffer |-> forecast[id],
                    factor |-> FactorDen + 4 ] : q \in 0..1 }
          [] f = "calculate_prediction_accuracy" ->
                { [called |-> TRUE, last_month |-> M(2025, 12)] }

\* a first call of one of the functions
CallFirst ==
    \E f \in Functions :
        /\ ~repeat[f].called
        /\ \E args \in ArgsOf(f) :
              /\ repeat' = [repeat EXCEPT ![f] =
                                [ called |-> TRUE, args |-> args,
                                  first |-> Returned(f, args), again |-> FALSE,
                                  second |-> NoCall ]]
              /\ monthly_data' = DataAfter(f, args)
        /\ UNCHANGED <<master_items, dwVars, drVars, odVars, paVars,
                       forecast_result, ssVars, fileVars, run, appVars>>

\* the same function called again with the same arguments
CallAgain ==
    \E f \in Functions :
        /\ repeat[f].called
        /\ ~repeat[f].again
        /\ repeat' = [repeat EXCEPT ![f].again = TRUE,
                                     ![f].second = Returned(f, repeat[f].args)]
        /\ monthly_data' = DataAfter(f, repeat[f].args)
        /\ UNCHANGED <<master_items, dwVars, drVars, odVars, paVars,
                       forecast_result, ssVars, fileVars, run, appVars>>

NextRepeat ==
    \/ CallFirst
    \/ CallAgain

SpecRepeat == InitRepeat /\ [][NextRepeat]_vars

-----------------------------------------------------------------------------
(* A session of the order-planning section *)

MaxSessionOrder == 1

SessionItems ==
    << [item_id |-> "DW-001", safety_stock |-> 2, max_stock |-> 4],
       [item_id |-> "DW-005", safety_stock |-> 3, max_stock |-> 3] >>

SessionItemIds == {SessionItems[i].item_id : i \in 1..Len(SessionItems)}

\* the events of the two save buttons modelled: the order section's comment
\* save (line 627) and the sidebar's JSON save (line 834)
SaveButtons == {"save_comment", "save_json"}

\* the events of the buttons that recalculate: lines 389, 390, 391 and 606
RecalcButtons == {"recalc", "demo", "reset", "item_recalc"}

\* what a comment box may hold
Texts == {"", "memo"}

\* the positions the planner moves the slider to: 1.0 and 1.2
SliderPositions == {FactorDen, FactorDen + 4}

\* The session at the end of its first run (lines 337-340, 373-388): every
\* order 0, the factor 1.2, the list built from them, no notice.
InitSession ==
    /\ monthly_data = ItemData("DW-001", 5, 0, 0, {2}, {})
                       \cup ItemData("DW-005", 5, 0, 0, {2}, {4})
    /\ master_items = SessionItems
    /\ od_args = NoCall
    /\ order_df = <<>>
    /\ discussion_rows = <<>>
    /\ DwIdle
    /\ DrIdle
    /\ PaIdle
    /\ RpIdle
    /\ AppIdle
    /\ forecast_result = calculate_inventory_forecast(monthly_data, master_items)
    /\ ss_orders = [id \in SessionItemIds |-> 0]
    /\ ss_safety_factor = FactorDen + 4
    /\ ss_applied_orders = ss_orders
    /\ ss_applied_safety_factor = ss_safety_factor
    /\ ss_discussion_items =
          DiscussionList(monthly_data, master_items, ss_orders, ss_safety_factor)
    /\ ss_comments = [id \in SessionItemIds |-> ""]
    /\ order_detail_item = SessionItems[1].item_id
    /\ decision_comment = ""
    /\ notice_shown = FALSE
    /\ comments_file = [id \in SessionItemIds |-> ""]
    /\ snapshot_file = NoCall
    /\ run = [pressed |-> {}, recalc |-> FALSE, entered |-> <<>>, wrote |-> {}]

\* lines 859-861: orders.update(...) with the loaded quantities of the items
\* other than the long-lead one
OrdersUpdate(orders, loaded) ==
    [id \in DOMAIN orders \cup (DOMAIN loaded \ {DW309}) |->
        IF id \in DOMAIN loaded \ {DW309} THEN loaded[id] ELSE orders[id]]

\* One run of the script, caused by the event ev.
RunScript(ev) ==
    LET item_ids == {master_items[i].item_id : i \in 1..Len(master_items)}
        \* lines 248 and 342: every run computes the forecast anew from the
        \* loaded data, which no run changes, and so finds the first run's
        next_month_forecast == NextMonthForecast(forecast_result.rows)
        \* lines 390-449: the demo and reset buttons
        orders1 ==
            CASE ev.kind = "demo" ->
                    [id \in item_ids |->
                        DemoOrder(monthly_data,
                            CHOOSE it \in {master_items[i] : i \in 1..Len(master_items)} :
                                it.item_id = id,
                            next_month_forecast,
                            DemoTargets(item_ids))]
              [] ev.kind = "reset" -> [id \in item_ids |-> 0]
              [] OTHER -> ss_orders
        \* the slider's value is in the session when the run starts (key)
        factor1 ==
            CASE ev.kind = "demo" -> FactorDen
              [] ev.kind = "slider" -> ev.factor
              [] OTHER -> ss_safety_factor
        \* lines 457-460
        needs0 == orders1 # ss_applied_orders \/ factor1 # ss_applied_safety_factor
        \* lines 484-493: recalc_clicked or auto_recalc
        early  == Recalculates(ev.kind)
        \* lines 563-601: the selected item and its number input
        selected == IF ev.kind = "select" THEN ev.item ELSE order_detail_item
        orders2  == IF ev.kind = "edit"
                    THEN [orders1 EXCEPT ![selected] = ev.qty]
                    ELSE orders1
        \* lines 606-610: the item's own recalc button
        late   == ev.kind = "item_recalc"
        \* lines 464-479, with the orders of the moment of the call
        applied == IF early THEN orders1 ELSE IF late THEN orders2 ELSE ss_applied_orders
        \* lines 619-632: the comment box and its save button
        \* (the box has no key: with another default it is another widget and
        \* shows that default, the comment stored for the item now selected)
        text     == IF ev.kind = "type" THEN ev.text
                    ELSE IF ev.kind = "select" THEN ss_comments[ev.item]
                    ELSE decision_comment
        comments == IF ev.kind = "save_comment"
                    THEN [ss_comments EXCEPT ![selected] = text]
                    ELSE ss_comments
        items    == IF early \/ late
                    THEN DiscussionListWith(monthly_data, master_items,
                                            next_month_forecast, applied, factor1)
                    ELSE ss_discussion_items
        \* line 844: the file the uploader holds in this run; the widget
        \* returns it in every run until the planner removes it, each time as
        \* a new buffer that reads from its start
        file     == CASE ev.kind = "upload" -> ev.file
                      [] ev.kind = "remove" -> NoCall
                      [] OTHER -> uploaded
    IN  /\ uploaded' = file
        \* lines 845-862, at the end of the run
        /\ ss_orders' = IF file.called THEN OrdersUpdate(orders2, file.orders)
                        ELSE orders2
        /\ ss_safety_factor' = factor1
        /\ ss_applied_orders' = applied
        /\ ss_applied_safety_factor' =
              IF early \/ late THEN factor1 ELSE ss_applied_safety_factor
        /\ ss_discussion_items' =
              IF file.called THEN file.discussion_items ELSE items
        /\ order_detail_item' = selected
        /\ decision_comment' = text
        /\ ss_comments' = IF file.called THEN file.comments ELSE comments
        \* lines 648-651
        /\ notice_shown' = IF early \/ late THEN FALSE ELSE needs0
        \* lines 630-631
        /\ comments_file' = IF WritesComments(ev.kind) THEN comments ELSE comments_file
        \* lines 825-842
        /\ snapshot_file' =
              IF ev.kind = "save_json" THEN [written |-> TRUE] ELSE snapshot_file
        /\ run' = [ pressed |-> {ev.kind} \cap SaveButtons,
                    recalc |-> ev.kind \in RecalcButtons,
                    entered |-> IF ev.kind = "edit"
                                THEN <<selected, ev.qty>> ELSE <<>>,
                    wrote |-> IF WritesComments(ev.kind) THEN {"comments.json"}
                              ELSE IF ev.kind = "save_json" THEN {"meeting_snapshot"}
                              ELSE {} ]
        /\ UNCHANGED <<monthly_data, dwVars, drVars, odVars, paVars, forecast_result,
                       repeat, calculation_results>>

\* The events of the page.  The section is drawn in its item-detail mode with
\* an item selected (lines 563-570), which is when its buttons can be pressed.

\* the planner picks another item in the order section
SelectItem ==
    \E id \in SessionItemIds \ {order_detail_item} :
        RunScript([kind |-> "select", item |-> id])

\* the planner enters another order quantity for the selected item
EditOrder ==
    \E q \in (0..MaxSessionOrder) \ {ss_orders[order_detail_item]} :
        RunScript([kind |-> "edit", qty |-> q])

\* the planner moves the slider
MoveSlider ==
    \E f \in SliderPositions \ {ss_safety_factor} :
        RunScript([kind |-> "slider", factor |-> f])

\* the planner presses the recalc button above the table
PressRecalc ==
    /\ order_detail_item \in SessionItemIds
    /\ RunScript([kind |-> "recalc"])

\* the planner presses the selected item's recalc button
PressItemRecalc ==
    /\ order_detail_item \in SessionItemIds
    /\ RunScript([kind |-> "item_recalc"])

\* the planner presses the demo button
PressDemo ==
    /\ order_detail_item \in SessionItemIds
    /\ RunScript([kind |-> "demo"])

\* the planner presses the reset button
PressReset ==
    /\ order_detail_item \in SessionItemIds
    /\ RunScript([kind |-> "reset"])

\* the planner types in the comment box
TypeComment ==
    \E t \in Texts \ {decision_comment} : RunScript([kind |-> "type", text |-> t])

\* the planner presses the order section's save-comment button
PressSaveComment ==
    /\ order_detail_item \in SessionItemIds
    /\ RunScript([kind |-> "save_comment"])

\* the planner presses the sidebar's JSON-save button
PressSaveJson ==
    /\ order_detail_item \in SessionItemIds
    /\ RunScript([kind |-> "save_json"])

NextSession ==
    \/ SelectItem
    \/ EditOrder
    \/ MoveSlider
    \/ PressRecalc
    \/ PressItemRecalc
    \/ PressDemo
    \/ PressReset
    \/ TypeComment
    \/ PressSaveComment
    \/ PressSaveJson

SpecSession == InitSession /\ [][NextSession]_vars

-----------------------------------------------------------------------------
(* A session with the sidebar's JSON uploader (lines 844-865).  The events  *)
(* are those whose run does not depend on what the order input holds beyond *)
(* the session's orders: the upload and the removal of a file, an edit of   *)
(* the selected item's order, the slider and the recalc button.             *)

\* The snapshots a planner may upload: what the JSON save of an earlier
\* session wrote (lines 825-842, build_meeting_snapshot), its orders any of
\* the session's and its list and comments those of that session.
Snapshots ==
    { [ called |-> TRUE,
        orders |-> o,
        discussion_items |->
            DiscussionList(ItemData("DW-001", 5, 0, 0, {2}, {})
                               \cup ItemData("DW-005", 5, 0, 0, {2}, {4}),
                           SessionItems, o, FactorDen + 4),
        comments |-> [id \in SessionItemIds |-> ""] ] :
        o \in [SessionItemIds -> 0..MaxSessionOrder] }

\* the planner selects a file in the uploader
UploadFile ==
    /\ uploaded = NoCall
    /\ \E f \in Snapshots : RunScript([kind |-> "upload", file |-> f])

\* the planner removes the file from the uploader
RemoveFile ==
    /\ uploaded # NoCall
    /\ RunScript([kind |-> "remove"])

NextUpload ==
    \/ UploadFile
    \/ RemoveFile
    \/ EditOrder
    \/ MoveSlider
    \/ PressRecalc

SpecUpload == InitSession /\ [][NextUpload]_vars

-----------------------------------------------------------------------------
(* Properties of the projection *)

DwCalled == dw_args # NoCall

\* sum over k <= i of (incoming_k - usage_k) on a sequence of rows or locals
RECURSIVE NetFlow(_, _)
NetFlow(rows, i) ==
    IF i = 0 THEN 0 ELSE NetFlow(rows, i - 1) + rows[i].incoming - rows[i].usage

\* the accumulation identities of a sequence of rows started at `start`
Accumulates(rows, start) ==
    /\ Len(rows) > 0 => rows[1].month_start = start
    /\ \A i \in 1..Len(rows) :
          /\ rows[i].month_end = rows[i].month_start + rows[i].incoming - rows[i].usage
          /\ rows[i].month_end = start + NetFlow(rows, i)
          /\ i < Len(rows) => rows[i + 1].month_start = rows[i].month_end

\* every figure of the table has at most one decimal place before it is rounded
OneDecimal(locals) ==
    \A i \in 1..Len(locals) : Round1(locals[i].usage) = locals[i].usage

\* C1 as stated: the figures of the returned table satisfy the accumulation
\* identities (row 0 starts at current_stock, ending = starting + incoming -
\* usage, next starting = this ending, ending_i = current_stock + sum).
\* Refuted: the table holds every figure rounded to one decimal.
C1_TableAccumulates ==
    DwCalled => Accumulates(dw_df, Num(dw_args.current_stock))

\* C1 amended: the identities hold for the unrounded values the loop computes
\* and for summary final_month_end, negative values included (nothing is
\* clamped); every cell of the table is that value rounded to one decimal, so
\* the table itself satisfies them whenever no usage figure has more than one
\* decimal place.
C1_LoopAccumulates ==
    DwCalled =>
        /\ Len(dw_df) = dw_args.months_ahead + 1
        /\ Len(dw_locals) = Len(dw_df)
        /\ Accumulates(dw_locals, Num(dw_args.current_stock))
        /\ dw_summary.final_month_end = dw_locals[Len(dw_locals)].month_end
        /\ \A i \in 1..Len(dw_df) :
              /\ dw_df[i].month_start = Round1(dw_locals[i].month_start)
              /\ dw_df[i].incoming = Round1(dw_locals[i].incoming)
              /\ dw_df[i].usage = Round1(dw_locals[i].usage)
              /\ dw_df[i].month_end = Round1(dw_locals[i].month_end)
        /\ OneDecimal(dw_locals) => Accumulates(dw_df, Num(dw_args.current_stock))

\* a projection that goes negative and stays negative in the table, over
\* several months, one of them with a fractional average as its usage
C1_Witness ==
    /\ DwCalled
    /\ Len(dw_df) >= 3
    /\ \E i \in 1..Len(dw_df) : dw_locals[i].month_end < 0 /\ dw_df[i].month_end < 0
    /\ ~OneDecimal(dw_locals)

\* the same call with order_qty = 0
BaseRun == build_dw309_forecast(monthly_data, [dw_args EXCEPT !.order_qty = 0])

FourWay(m, safety, max) ==
    CASE m < 0 -> "stockout"
      [] m >= 0 /\ m < safety -> "critical"
      [] m >= 0 /\ m >= safety /\ m > max -> "excess"
      [] OTHER -> "normal"

\* C5: every projected month-end m of the long-lead item is labelled Stockout
\* if m < 0, else Critical if m < safety, else Excess if m > max, else Normal;
\* m = safety and m = max (m >= 0, safety <= max) are Normal.
C5_FourWayStatus ==
    DwCalled =>
        \A i \in 1..Len(dw_df) :
            LET m      == Order64(dw_locals[i].month_end, dw_locals[i].err)
                safety == 2 * Num(dw_args.safety_stock)
                max    == 2 * Num(dw_args.max_stock)
            IN  /\ dw_df[i].status = FourWay(m, safety, max)
                /\ (safety <= max /\ m >= 0 /\ (m = safety \/ m = max))
                      => dw_df[i].status = "normal"

\* one table with all four labels, and months ending exactly on each threshold
C5_Witness ==
    /\ DwCalled
    /\ {dw_df[i].status : i \in 1..Len(dw_df)}
          = {"stockout", "critical", "excess", "normal"}
    /\ \E i \in 1..Len(dw_df) :
          /\ dw_locals[i].month_end = Num(dw_args.safety_stock)
          /\ dw_locals[i].err = 0

C5_WitnessMax ==
    /\ DwCalled
    /\ \E i \in 1..Len(dw_df) :
          /\ dw_locals[i].month_end = Num(dw_args.max_stock)
          /\ dw_locals[i].err = 0
          /\ dw_df[i].status = "normal"

MonthEnds(df) == [i \in 1..Len(df) |-> df[i].month_end]

Unsafe(status) == status \in {"critical", "stockout"}

\* C3: in the example (start 200, safety 100, max 500) an order of 50 gives the
\* month-end stocks 190,180,170,160,150,140,160 and a Normal last row; an
\* order of 0 gives a final stock of 110, Normal; and whenever the order
\* brings the final stock below 100 the last row is labelled unsafe.
C3_Example ==
    DwCalled =>
        LET last == dw_df[Len(dw_df)]
        IN  /\ Len(dw_df) = 7
            /\ dw_args.order_qty = 50 =>
                  /\ MonthEnds(dw_df) = <<Num(190), Num(180), Num(170), Num(160),
                                          Num(150), Num(140), Num(160)>>
                  /\ last.status = "normal"
            /\ dw_args.order_qty = 0 =>
                  /\ last.month_end = Num(110)
                  /\ dw_summary.final_month_end = Num(110)
                  /\ last.status = "normal"
            /\ dw_summary.final_month_end < Num(100) <=> Unsafe(last.status)

C3_Witness ==
    /\ DwCalled
    /\ dw_args.order_qty = 50
    /\ dw_df[7].month_end = Num(160)

C3_WitnessUnsafe ==
    /\ DwCalled
    /\ dw_summary.final_month_end < Num(100)
    /\ dw_df[7].status = "critical"

\* the figures stored for the long-lead item under a key in a set of months
Figures(months, key) ==
    {e \in monthly_data : e[1] \in months /\ e[2] = DW309 /\ e[3] = key}

RECURSIVE SumFigures(_)
SumFigures(S) ==
    IF S = {} THEN 0
    ELSE LET e == CHOOSE x \in S : TRUE IN Num(e[4]) + SumFigures(S \ {e})

\* C15: the usage average is the mean of the usage forecasts present for
\* 2026-01..03; only when there is none, the mean of the outgoing figures
\* present for 2025-10..12; and 0 when there is neither.
C15_UsageAverage ==
    DwCalled =>
        LET forecasts == Figures({M(2026, 1), M(2026, 2), M(2026, 3)}, "usage_forecast")
            outgoing  == Figures(PastMonths, "outgoing")
            avg       == dw_summary.usage_avg
        IN  /\ forecasts # {} => avg * Cardinality(forecasts) = SumFigures(forecasts)
            /\ (forecasts = {} /\ outgoing # {}) =>
                  avg * Cardinality(outgoing) = SumFigures(outgoing)
            /\ (forecasts = {} /\ outgoing = {}) => avg = 0

\* two forecasts present and three outgoing figures of another mean: the
\* average is the forecasts' mean, 1.5, not the mean of the five figures
C15_Witness ==
    /\ DwCalled
    /\ Cardinality(Figures({M(2026, 1), M(2026, 2), M(2026, 3)}, "usage_forecast")) = 2
    /\ Cardinality(Figures(PastMonths, "outgoing")) = 3
    /\ dw_summary.usage_avg = Num(3) \div 2

\* no forecast: the mean of the two outgoing figures present, 1.5
C15_WitnessFallback ==
    /\ DwCalled
    /\ Figures({M(2026, 1), M(2026, 2), M(2026, 3)}, "usage_forecast") = {}
    /\ Cardinality(Figures(PastMonths, "outgoing")) = 2
    /\ dw_summary.usage_avg = Num(3) \div 2

\* no figure at all: 0
C15_WitnessNone ==
    /\ DwCalled
    /\ Figures({M(2026, 1), M(2026, 2), M(2026, 3)}, "usage_forecast") = {}
    /\ Figures(PastMonths, "outgoing") = {}
    /\ dw_summary.usage_avg = 0

\* the long-lead item has a figure under `key` in the month of row i
Present(i, key) ==
    \E e \in monthly_data : e[1] = dw_df[i].month /\ e[2] = DW309 /\ e[3] = key

\* the part of the order that row i receives
OrderShare(i) == IF i = Len(dw_df) THEN Num(dw_args.order_qty) ELSE 0

NextCalendarMonth(m) == IF m[2] = 12 THEN <<m[1] + 1, 1>> ELSE <<m[1], m[2] + 1>>

\* C18: a call with months_ahead = n returns n + 1 rows, the first of the
\* start month and each next one of the following calendar month, the year
\* moving on after December; the order is delivered in the last row, whose
\* month is the summary's final_month; with the defaults (2026-01, 7) that
\* month is 2026-08.
C18_Horizon ==
    DwCalled =>
        LET n == dw_args.months_ahead
        IN  /\ Len(dw_df) = n + 1
            /\ dw_df[1].month = dw_args.start_month
            /\ \A i \in 1..n : dw_df[i + 1].month = NextCalendarMonth(dw_df[i].month)
            /\ \A i \in 1..(n + 1) : dw_df[i].month[2] \in 1..12
            /\ dw_summary.final_month = dw_df[n + 1].month
            /\ \A i \in 1..(n + 1) :
                  dw_locals[i].incoming =
                      OrderShare(i)
                      + (IF Present(i, IncomingKey(dw_df[i].month))
                         THEN Num((CHOOSE e \in monthly_data :
                                      /\ e[1] = dw_df[i].month
                                      /\ e[2] = DW309
                                      /\ e[3] = IncomingKey(dw_df[i].month))[4])
                         ELSE 0)
            /\ (dw_args.start_month = M(2026, 1) /\ n = 7) =>
                  dw_summary.final_month = M(2026, 8)

\* the default call with an order of 2: eight rows, the order in 2026-08
C18_Witness ==
    /\ DwCalled
    /\ dw_args.start_month = M(2026, 1)
    /\ dw_args.months_ahead = 7
    /\ dw_args.order_qty = 2
    /\ Len(dw_df) = 8
    /\ dw_df[8].month = M(2026, 8)
    /\ dw_locals[8].incoming = Num(3)
    /\ dw_summary.final_month = M(2026, 8)

\* a horizon that runs over the end of a year, and of the next one
C18_WitnessRollover ==
    /\ DwCalled
    /\ dw_args.start_month = M(2025, 11)
    /\ Len(dw_df) = 14
    /\ dw_df[2].month = M(2025, 12)
    /\ dw_df[3].month = M(2026, 1)
    /\ dw_df[14].month = M(2026, 12)

-----------------------------------------------------------------------------
(* Properties of the risk label and the discussion checks *)

DrCalled == dr_args # NoCall

HasTag(reasons, tag) == \E i \in 1..Len(reasons) : reasons[i] = tag

\* the priority the specification gives each check
TagPriority(tag) ==
    CASE tag = "shortage_risk" -> 1
      [] tag = "excess_risk" -> 2
      [] tag = "abnormal_order" -> 3
      [] tag = "next_month_short" -> 3

MinOf(S) == CHOOSE x \in S : \A y \in S : x <= y

\* C4: risk_level(e, safety, max) is the shortage label exactly when
\* e < safety, the excess label exactly when e >= safety and e > max, and
\* Normal otherwise; with safety <= max, e = safety and e = max are Normal,
\* safety - 1 is the shortage label and max + 1 is Excess.
C4_RiskLevel ==
    DrCalled =>
        LET e      == dr_args.row.next_next_end
            safety == dr_args.row.safety_stock
            max    == dr_args.row.max_stock
            risk   == dr_result.risk
        IN  /\ risk = "shortage" <=> e < safety
            /\ risk = "excess" <=> (e >= safety /\ e > max)
            /\ risk = "normal" <=> (e >= safety /\ e <= max)
            /\ safety <= max =>
                  /\ (e = safety \/ e = max) => risk = "normal"
                  /\ e = safety - Num(1) => risk = "shortage"
                  /\ e = max + Num(1) => risk = "excess"

\* a call on the lower boundary that returns Normal
C4_Witness ==
    /\ DrCalled
    /\ dr_args.row.next_next_end = dr_args.row.safety_stock
    /\ dr_args.row.safety_stock < dr_args.row.max_stock
    /\ dr_result.risk = "normal"

C4_WitnessMax ==
    /\ DrCalled
    /\ dr_args.row.next_next_end = dr_args.row.max_stock + Num(1)
    /\ dr_args.row.safety_stock < dr_args.row.max_stock
    /\ dr_result.risk = "excess"

\* C6: the abnormal-order tag is in the reasons exactly when the order is 0,
\* or the normal-order average is > 0 and the order is >= twice the average;
\* so order 0 with average 0 is tagged and a nonzero order with average 0 is not.
C6_AbnormalOrderTag ==
    DrCalled =>
        LET q   == dr_args.row.order_qty
            avg == dr_args.normal_order_avg
            tagged == HasTag(dr_result.reasons, "abnormal_order")
        IN  /\ tagged <=> (q = 0 \/ (avg > 0 /\ q >= 2 * avg))
            /\ (q = 0 /\ avg = 0) => tagged
            /\ (q # 0 /\ avg = 0) => ~tagged

\* order 0 against an average of 0, tagged
C6_Witness ==
    /\ DrCalled
    /\ dr_args.row.order_qty = 0
    /\ dr_args.normal_order_avg = 0
    /\ HasTag(dr_result.reasons, "abnormal_order")

\* a nonzero order of exactly twice a positive average, tagged
C6_WitnessTwice ==
    /\ DrCalled
    /\ dr_args.normal_order_avg > 0
    /\ dr_args.row.order_qty = 2 * dr_args.normal_order_avg
    /\ HasTag(dr_result.reasons, "abnormal_order")

\* C7: when at least one check fires the priority is the minimum of the fired
\* checks' priorities (shortage 1, excess 2, abnormal order 3, next-month
\* stock 3); a row with the abnormal-order tag alone has priority 3.
C7_PriorityIsMinimum ==
    DrCalled =>
        LET reasons == dr_result.reasons
        IN  /\ reasons # <<>> =>
                  dr_result.priority =
                      MinOf({TagPriority(reasons[i]) : i \in 1..Len(reasons)})
            /\ reasons = <<"abnormal_order">> => dr_result.priority = 3

\* several checks fired at once, the most urgent one deciding
C7_Witness ==
    /\ DrCalled
    /\ Len(dr_result.reasons) >= 3
    /\ dr_result.priority = 2

C7_WitnessOnlyAbnormal ==
    /\ DrCalled
    /\ dr_result.reasons = <<"abnormal_order">>
    /\ dr_result.priority = 3

\* C9: the shortage-risk tag is in the reasons exactly when the
\* two-months-ahead ending stock is strictly below the safety stock, and then
\* the priority is 1 whatever the other checks do.
C9_ShortageTag ==
    DrCalled =>
        LET tagged == HasTag(dr_result.reasons, "shortage_risk")
        IN  /\ tagged <=> dr_args.row.next_next_end < dr_args.row.safety_stock
            /\ tagged => dr_result.priority = 1

\* the shortage tag together with every other tag
C9_Witness ==
    /\ DrCalled
    /\ Len(dr_result.reasons) = 4
    /\ dr_result.priority = 1

\* C10: the excess-risk tag is in the reasons exactly when the
\* two-months-ahead ending stock is strictly above the max stock, and then the
\* priority is at most 2, and exactly 2 when the shortage check did not fire.
C10_ExcessTag ==
    DrCalled =>
        LET tagged == HasTag(dr_result.reasons, "excess_risk")
        IN  /\ tagged <=> dr_args.row.next_next_end > dr_args.row.max_stock
            /\ tagged => dr_result.priority <= 2
            /\ (tagged /\ ~HasTag(dr_result.reasons, "shortage_risk")) =>
                  dr_result.priority = 2

\* the excess tag without the shortage tag, other checks firing too
C10_Witness ==
    /\ DrCalled
    /\ HasTag(dr_result.reasons, "excess_risk")
    /\ ~HasTag(dr_result.reasons, "shortage_risk")
    /\ Len(dr_result.reasons) >= 2
    /\ dr_result.priority = 2

\* C11: the next-month tag is in the reasons exactly when the next-month
\* buffer is strictly below safety_stock x safety_factor (a buffer equal to the
\* product does not trigger), and then the priority is at most 3.
C11_NextMonthTag ==
    DrCalled =>
        LET tagged == HasTag(dr_result.reasons, "next_month_short")
        IN  /\ tagged <=> dr_args.next_month_buffer * FactorDen
                              < dr_args.row.safety_stock * dr_args.factor
            /\ tagged => dr_result.priority <= 3

\* a buffer of 55 against a safety stock of 50 and a factor of 1.1, tagged
C11_EqualityTagged ==
    /\ DrCalled
    /\ dr_args.row.safety_stock = Num(50)
    /\ dr_args.factor = 22
    /\ dr_args.next_month_buffer = Num(55)
    /\ HasTag(dr_result.reasons, "next_month_short")

-----------------------------------------------------------------------------
(* Properties of the discussion list *)

OdCalled == od_args # NoCall

\* the four checks of the specification on a row of the order table
Triggers(row, factor) ==
    LET avg == calculate_normal_order_average(monthly_data, row.item_id)
    IN  \/ row.next_next_end < row.safety_stock
        \/ row.next_next_end > row.max_stock
        \/ row.order_qty = 0
        \/ (avg > 0 /\ row.order_qty >= 2 * avg)
        \/ row.next_month_end * FactorDen < row.safety_stock * factor

Occurrences(rows, id) == Cardinality({i \in 1..Len(rows) : rows[i].item_id = id})

-----------------------------------------------------------------------------
(* Properties of the prediction review *)

PaCalled == pa_args # NoCall

\* the figure stored under a key, 0 when the record or the field is absent
Stored(month, id, key) ==
    IF \E e \in monthly_data : e[1] = month /\ e[2] = id /\ e[3] = key
    THEN Num((CHOOSE e \in monthly_data :
                 e[1] = month /\ e[2] = id /\ e[3] = key)[4])
    ELSE 0

ReviewedItems == {e[2] : e \in {x \in monthly_data : x[1] = pa_args.last_month}}

\* C12: for every item of the reviewed month, predicted_usage = start +
\* incoming - predicted ending, actual_usage = start + incoming - actual ending
\* and diff = actual_usage - predicted_usage, whatever usage is stored; start
\* 100, incoming 20, predicted ending 90, actual ending 80 give 30, 40 and 10.
C12_UsageFromStocks ==
    PaCalled =>
        /\ DOMAIN accuracy_df = ReviewedItems
        /\ \A id \in ReviewedItems :
              LET row       == accuracy_df[id]
                  start     == Stored(M(2025, 11), id, "stock")
                  incoming  == Stored(pa_args.last_month, id, "incoming")
                  predicted == Stored(pa_args.last_month, id, "predicted_stock")
                  actual    == Stored(pa_args.last_month, id, "stock")
              IN  /\ row.predicted_usage = start + incoming - predicted
                  /\ row.actual_usage = start + incoming - actual
                  /\ row.diff = row.actual_usage - row.predicted_usage
                  /\ (start = Num(100) /\ incoming = Num(20)
                        /\ predicted = Num(90) /\ actual = Num(80))
                      => /\ row.predicted_usage = Num(30)
                         /\ row.actual_usage = Num(40)
                         /\ row.diff = Num(10)

\* the worked example, with a stored outgoing figure that differs from both usages
C12_Witness ==
    /\ PaCalled
    /\ "DW-001" \in DOMAIN accuracy_df
    /\ Stored(M(2025, 12), "DW-001", "outgoing") = Num(35)
    /\ accuracy_df["DW-001"].predicted_usage = Num(30)
    /\ accuracy_df["DW-001"].actual_usage = Num(40)
    /\ accuracy_df["DW-001"].diff = Num(10)

\* C13: an item whose predicted usage is 0 has an error rate of exactly 0,
\* whatever its actual usage, and the call returns its table.
C13_ZeroPredictedUsage ==
    PaCalled =>
        \A id \in ReviewedItems :
            /\ id \in DOMAIN accuracy_df
            /\ accuracy_df[id].predicted_usage = 0 => accuracy_df[id].error_rate = 0

\* a predicted usage of 0 against an actual usage of 40
C13_Witness ==
    /\ PaCalled
    /\ "DW-001" \in DOMAIN accuracy_df
    /\ accuracy_df["DW-001"].predicted_usage = 0
    /\ accuracy_df["DW-001"].actual_usage = Num(40)
    /\ accuracy_df["DW-001"].error_rate = 0

\* the error rate of a row in tenths of a percent
Tenths(row) == row.error_rate \div (Scale \div 10)

\* C14: when the predicted usage is not 0 the error rate is a number of
\* tenths nearest to (actual_usage - predicted_usage) / predicted_usage x 100,
\* of the sign of that quotient (or 0); predicted 30 and actual 40 give 33.3.
C14_ErrorRate ==
    PaCalled =>
        \A id \in DOMAIN accuracy_df :
            LET row == accuracy_df[id]
                pu  == row.predicted_usage
                d   == row.actual_usage - row.predicted_usage
            IN  pu # 0 =>
                  /\ row.error_rate = Tenths(row) * (Scale \div 10)
                  /\ 2 * Abs(Tenths(row) * pu - 1000 * d) <= Abs(pu)
                  /\ (d * pu < 0) => Tenths(row) <= 0
                  /\ (d * pu > 0) => Tenths(row) >= 0
                  /\ (pu = Num(30) /\ row.actual_usage = Num(40)) => Tenths(row) = 333

\* an actual usage below the predicted one, reported as a negative rate
C14_Witness ==
    /\ PaCalled
    /\ "DW-001" \in DOMAIN accuracy_df
    /\ accuracy_df["DW-001"].predicted_usage > 0
    /\ accuracy_df["DW-001"].actual_usage < accuracy_df["DW-001"].predicted_usage
    /\ Tenths(accuracy_df["DW-001"]) < 0

\* the worked example: 33.3
C14_WitnessExample ==
    /\ PaCalled
    /\ "DW-001" \in DOMAIN accuracy_df
    /\ accuracy_df["DW-001"].predicted_usage = Num(30)
    /\ accuracy_df["DW-001"].actual_usage = Num(40)
    /\ Tenths(accuracy_df["DW-001"]) = 333

\* a quotient half-way between two tenths: 1 / 16 x 100 = 6.25
C14_WitnessTie ==
    /\ PaCalled
    /\ "DW-001" \in DOMAIN accuracy_df
    /\ accuracy_df["DW-001"].predicted_usage = Num(16)
    /\ accuracy_df["DW-001"].diff = Num(1)
    /\ Tenths(accuracy_df["DW-001"]) = 62

-----------------------------------------------------------------------------
(* Properties of the core on partial data *)

FcCalled == forecast_result # NoCall

\* the figure stored for an item, 0 when the record or the field is absent
StoredOr0(month, id, key) ==
    IF \E e \in monthly_data : e[1] = month /\ e[2] = id /\ e[3] = key
    THEN Num((CHOOSE e \in monthly_data :
                 e[1] = month /\ e[2] = id /\ e[3] = key)[4])
    ELSE 0

\* C17, for calculate_inventory_forecast: whatever records and fields are
\* missing, the call does not raise and returns one row per item, computed
\* with the absent figures taken as 0.
C17_NeverFatal ==
    FcCalled =>
        /\ forecast_result.raised = "no"
        /\ Len(forecast_result.rows) = Len(master_items)
        /\ \A i \in 1..Len(forecast_result.rows) :
              LET id == master_items[i].item_id
              IN  forecast_result.rows[i].next_month_end_forecast =
                      StoredOr0(M(2026, 1), id, "current_stock")
                      + StoredOr0(M(2026, 1), id, "incoming_expected")
                      - StoredOr0(M(2026, 1), id, "usage_forecast")
                      + StoredOr0(M(2026, 2), id, "arranged")
                      - StoredOr0(M(2026, 2), id, "usage_forecast")

\* the first item lacks only the arranged figure of 2026-02, the second item
\* is complete, and the call ends in a KeyError
C17_KeyErrorOnMissingField ==
    /\ FcCalled
    /\ \A k \in {"current_stock", "incoming_expected", "usage_forecast"} :
          HasKey(monthly_data, M(2026, 1), "DW-001", k)
    /\ HasKey(monthly_data, M(2026, 2), "DW-001", "usage_forecast")
    /\ ~HasKey(monthly_data, M(2026, 2), "DW-001", "arranged")
    /\ HasKey(monthly_data, M(2026, 2), "DW-002", "arranged")
    /\ forecast_result.raised = "KeyError"

\* C23 as stated: a call that returns priority 4 returns at least one reason.
C23_Priority4HasReason ==
    DrCalled => (dr_result.priority = 4 => dr_result.reasons # <<>>)

\* C23: discussion_reasons returns priority 4 exactly when no check fired,
\* that is with an empty list of reasons; when a check fired the priority is
\* 1, 2 or 3.
C23_Priority4IffNoReason ==
    DrCalled =>
        /\ dr_result.priority = 4 <=> dr_result.reasons = <<>>
        /\ dr_result.reasons # <<>> => dr_result.priority \in {1, 2, 3}

\* a row inside its thresholds, ordered as usual, with buffer enough: no check
\* fires and the priority is 4
C23_Witness ==
    /\ DrCalled
    /\ dr_args.row.order_qty > 0
    /\ dr_args.row.next_next_end >= dr_args.row.safety_stock
    /\ dr_args.row.next_next_end <= dr_args.row.max_stock
    /\ dr_result.reasons = <<>>
    /\ dr_result.priority = 4

\* C27: the tags of a row agree with its risk label: the shortage tag is
\* there exactly when the label is the shortage one, the excess tag whenever
\* the label is Excess, and a row labelled Normal has neither tag; with
\* safety <= max the two tags are never on the same row.
C27_TagsAgreeWithRisk ==
    DrCalled =>
        LET shortage == HasTag(dr_result.reasons, "shortage_risk")
            excess   == HasTag(dr_result.reasons, "excess_risk")
        IN  /\ shortage <=> dr_result.risk = "shortage"
            /\ dr_result.risk = "excess" => excess
            /\ dr_result.risk = "normal" => ~shortage /\ ~excess
            /\ dr_args.row.safety_stock <= dr_args.row.max_stock =>
                  ~(shortage /\ excess)

\* a row labelled Excess with the excess tag and without the shortage tag
C27_Witness ==
    /\ DrCalled
    /\ dr_args.row.safety_stock <= dr_args.row.max_stock
    /\ dr_result.risk = "excess"
    /\ HasTag(dr_result.reasons, "excess_risk")
    /\ ~HasTag(dr_result.reasons, "shortage_risk")

\* with the safety stock above the max stock a row between them has both
\* tags and the shortage label
C27_WitnessBothTags ==
    /\ DrCalled
    /\ dr_args.row.safety_stock > dr_args.row.max_stock
    /\ dr_result.risk = "shortage"
    /\ HasTag(dr_result.reasons, "shortage_risk")
    /\ HasTag(dr_result.reasons, "excess_risk")

\* a row on the max stock: Normal, no excess tag
C27_WitnessOnMax ==
    /\ DrCalled
    /\ dr_args.row.next_next_end = dr_args.row.max_stock
    /\ dr_args.row.safety_stock <= dr_args.row.max_stock
    /\ dr_result.risk = "normal"
    /\ ~HasTag(dr_result.reasons, "excess_risk")

-----------------------------------------------------------------------------
(* Properties of a session *)

\* the list the checks give for the session's current orders and factor
ListIsCurrent ==
    ss_discussion_items =
        DiscussionList(monthly_data, master_items, ss_orders, ss_safety_factor)

\* the list the checks give for the orders and factor last applied
ListIsApplied ==
    ss_discussion_items =
        DiscussionList(monthly_data, master_items, ss_applied_orders,
                       ss_applied_safety_factor)

C19_WitnessApplied ==
    /\ run.recalc
    /\ ss_applied_orders = ss_orders
    /\ \E id \in DOMAIN ss_orders : ss_orders[id] # 0
    /\ ss_applied_safety_factor = ss_safety_factor
    /\ ss_safety_factor = FactorDen
    /\ ListIsCurrent
    /\ ss_discussion_items #
          DiscussionList(monthly_data, master_items,
                         [id \in DOMAIN ss_orders |-> 0], FactorDen + 4)

\* C20: a run writes data/comments.json only if a save-comment button was
\* pressed for it and a meeting snapshot only if the JSON-save button was; a
\* run of any other event (an order, a comment text or the slider edited,
\* recalc, demo or reset pressed) leaves both files as they were.
C20_WritesOnlyOnSave ==
    [][ /\ ("comments.json" \in run'.wrote) => ("save_comment" \in run'.pressed)
        /\ ("meeting_snapshot" \in run'.wrote) => ("save_json" \in run'.pressed)
        /\ (comments_file' # comments_file) => ("comments.json" \in run'.wrote)
        /\ (snapshot_file' # snapshot_file) => ("meeting_snapshot" \in run'.wrote)
        /\ (run'.pressed = {}) =>
              /\ run'.wrote = {}
              /\ comments_file' = comments_file
              /\ snapshot_file' = snapshot_file ]_vars

\* a comment typed and not saved: the session and the file still without it
C20_Witness ==
    /\ decision_comment = "memo"
    /\ \A id \in DOMAIN ss_comments : ss_comments[id] = ""
    /\ \A id \in DOMAIN comments_file : comments_file[id] = ""
    /\ \E id \in DOMAIN ss_orders : ss_orders[id] # 0
    /\ snapshot_file = NoCall
    /\ run.wrote = {}

\* a comment saved: the file holds it
C20_WitnessSaved ==
    /\ run.wrote = {"comments.json"}
    /\ \E id \in DOMAIN comments_file : comments_file[id] = "memo"
    /\ comments_file = ss_comments

-----------------------------------------------------------------------------
(* The recurrence across forecast.py and order_planning.py *)

\* the item has a usage forecast for 2026-03 (2026-01 and 2026-02 are complete
\* in every run of the order table)
Complete(id) ==
    /\ Has(monthly_data, M(2026, 1), id,
           {"current_stock", "incoming_expected", "usage_forecast"})
    /\ Has(monthly_data, M(2026, 2), id, {"arranged", "usage_forecast"})
    /\ Has(monthly_data, M(2026, 3), id, {"usage_forecast"})

\* C24: for every item with complete data the two-months-ahead ending stock
\* of the order table is current stock + incoming expected - usage(2026-01)
\* + arranged - usage(2026-02) + order - usage(2026-03).
C24_Recurrence ==
    OdCalled =>
        \A i \in 1..Len(order_df) :
            LET id == order_df[i].item_id
            IN  Complete(id) =>
                    order_df[i].next_next_end =
                        Stored(M(2026, 1), id, "current_stock")
                        + Stored(M(2026, 1), id, "incoming_expected")
                        - Stored(M(2026, 1), id, "usage_forecast")
                        + Stored(M(2026, 2), id, "arranged")
                        - Stored(M(2026, 2), id, "usage_forecast")
                        + Num(od_args.orders[id])
                        - Stored(M(2026, 3), id, "usage_forecast")

\* an item with every term of the recurrence non-zero
C24_Witness ==
    /\ OdCalled
    /\ \E i \in 1..Len(order_df) :
          LET id == order_df[i].item_id
          IN  /\ Complete(id)
              /\ Stored(M(2026, 1), id, "incoming_expected") > 0
              /\ Stored(M(2026, 2), id, "arranged") > 0
              /\ Stored(M(2026, 3), id, "usage_forecast") > 0
              /\ od_args.orders[id] > 0
              /\ order_df[i].next_next_end # order_df[i].next_month_end

-----------------------------------------------------------------------------
(* The month before the reviewed month *)

\* the calendar month before m
PreviousCalendarMonth(m) ==
    IF m[2] = 1 THEN M(m[1] - 1, 12) ELSE M(m[1], m[2] - 1)

\* C25 as stated: whatever last_month is, the usages of a row are backed out
\* from the closing stock recorded for the item in the month before
\* last_month (0 when there is none).
C25_StartIsMonthBefore ==
    PaCalled =>
        \A id \in DOMAIN accuracy_df :
            LET last  == pa_args.last_month
                start == Stored(PreviousCalendarMonth(last), id, "stock")
            IN  /\ accuracy_df[id].predicted_usage =
                      start + Stored(last, id, "incoming")
                      - Stored(last, id, "predicted_stock")
                /\ accuracy_df[id].actual_usage =
                      start + Stored(last, id, "incoming") - Stored(last, id, "stock")

\* the review of 2025-11: the usages are backed out from the closing stock of
\* 2025-11 itself, not from that of 2025-10
C25_StartIsNovember ==
    /\ PaCalled
    /\ pa_args.last_month = M(2025, 11)
    /\ Stored(M(2025, 10), "DW-001", "stock") = Num(100)
    /\ Stored(M(2025, 11), "DW-001", "stock") = Num(90)
    /\ Stored(M(2025, 11), "DW-001", "predicted_stock") = Num(95)
    /\ "DW-001" \in DOMAIN accuracy_df
    /\ accuracy_df["DW-001"].predicted_usage = Num(90) - Num(95)
    /\ accuracy_df["DW-001"].actual_usage = 0

-----------------------------------------------------------------------------
(* Agreement of the two projections *)

\* both functions called, the projection started from the current stock
SameStart ==
    /\ DwCalled
    /\ FcCalled
    /\ forecast_result.raised = "no"
    /\ Num(dw_args.current_stock) = forecast_result.rows[1].current_stock

\* the two month-end forecasts of forecast.py
PathForecast ==
    << forecast_result.rows[1].month_end_forecast,
       forecast_result.rows[1].next_month_end_forecast >>

\* C30 as stated: the projection has two rows at least and the ending stocks
\* of its first two rows are the this-month-end and the next-month-end
\* forecasts.
C30_FirstTwoRowsAgree ==
    SameStart =>
        /\ Len(dw_df) >= 2
        /\ \A i \in 1..2 : dw_df[i].month_end = PathForecast[i]

\* C30: a row of 2026-01 or 2026-02 that is not the last row of the
\* projection ends at the forecast of forecast.py for that month; when it is
\* the last row (months_ahead 0 or 1) it ends at that forecast plus the order
\* quantity.
C30_RowsAgreeBeforeTheLast ==
    SameStart =>
        \A i \in 1..Min(2, Len(dw_df)) :
            dw_df[i].month_end =
                IF i < Len(dw_df)
                THEN PathForecast[i]
                ELSE PathForecast[i] + Num(dw_args.order_qty)

\* a projection of three months or more with an order: both rows agree
C30_Witness ==
    /\ SameStart
    /\ Len(dw_df) >= 3
    /\ dw_args.order_qty > 0
    /\ dw_df[1].month_end = PathForecast[1]
    /\ dw_df[2].month_end = PathForecast[2]
    /\ PathForecast[1] # PathForecast[2]

\* a projection of two months: the order lands in 2026-02
C30_WitnessLastRow ==
    /\ SameStart
    /\ Len(dw_df) = 2
    /\ dw_args.order_qty > 0
    /\ dw_df[2].month_end = PathForecast[2] + Num(dw_args.order_qty)

-----------------------------------------------------------------------------
(* Calls that leave their inputs alone *)

-----------------------------------------------------------------------------
(* The label of a row and the month-end the row carries *)

\* C22 as stated: in every row of the projection the status is the 4-way
\* label of the month-end stock that the row carries, the value rounded to
\* one decimal.
C22_LabelClassifiesRow ==
    DwCalled =>
        \A i \in 1..Len(dw_df) :
            dw_df[i].status =
                FourWay(dw_df[i].month_end, Num(dw_args.safety_stock),
                        Num(dw_args.max_stock))

\* a row that carries the maximum stock itself, 5.0, and is labelled Excess:
\* the double it was labelled from is 5.000000000000001, three subtractions
\* of the average 4/3 from whole numbers
C22_WitnessExcessOnMax ==
    /\ DwCalled
    /\ \E i \in 1..Len(dw_df) :
          /\ dw_df[i].month_end = Num(dw_args.max_stock)
          /\ dw_locals[i].month_end = Num(dw_args.max_stock)
          /\ dw_locals[i].err > 0
          /\ dw_locals[i].usage = Num(4) \div 3
          /\ dw_df[i].status = "excess"

-----------------------------------------------------------------------------
(* The overall risk of the long-lead item *)

LongLeadRun == DW309 \in DOMAIN calculation_results

\* the projected month-end of row i as the code holds it, ordered against
\* twice a whole number
MonthEnd64(i) == Order64(dw_locals[i].month_end, dw_locals[i].err)

\* C28 as stated: the overall risk is shortage iff some projected month-end is
\* below the safety stock, excess iff none is and the final one is above the
\* maximum stock, normal otherwise; and under an overall normal no row is
\* labelled Stockout or Critical.
C28_OverallRiskFollowsRows ==
    LongLeadRun =>
        LET risk   == calculation_results[DW309].risk
            safety == 2 * Num(dw_args.safety_stock)
            max    == 2 * Num(dw_args.max_stock)
            below  == \E i \in 1..Len(dw_df) : MonthEnd64(i) < safety
            above  == MonthEnd64(Len(dw_df)) > max
        IN  /\ risk = "shortage" <=> below
            /\ risk = "excess" <=> (~below /\ above)
            /\ risk = "normal" <=> (~below /\ ~above)
            /\ risk = "normal" => \A i \in 1..Len(dw_df) : ~Unsafe(dw_df[i].status)

\* an overall normal over a table with a row labelled Critical: the row
\* carries the safety stock itself, 2.0, and was labelled from the double
\* 1.9999999999999998
C28_WitnessNormalWithCritical ==
    /\ LongLeadRun
    /\ calculation_results[DW309].risk = "normal"
    /\ \E i \in 1..Len(dw_df) :
          /\ dw_df[i].status = "critical"
          /\ dw_df[i].month_end = Num(dw_args.safety_stock)
          /\ dw_locals[i].err < 0

-----------------------------------------------------------------------------
(* The notice that asks for a recalculation *)

\* the orders or the factor of the session are not those the list was last
\* computed from
Unapplied ==
    \/ ss_orders # ss_applied_orders
    \/ ss_safety_factor # ss_applied_safety_factor

\* C29 as stated: at the end of every run of the order-planning section, if
\* the session's orders or safety factor differ from the applied ones, the
\* notice asking for a recalculation was shown in that run (it is cleared
\* only when they are equal).
C29_NoticeWhenUnapplied == Unapplied => notice_shown

\* the run of an edit of an order that was applied before: the order now
\* differs from the applied one and the run showed no notice
C29_WitnessEditNoNotice ==
    /\ Unapplied
    /\ ~notice_shown
    /\ ~run.recalc
    /\ ss_safety_factor = ss_applied_safety_factor
    /\ \E id \in SessionItemIds :
          /\ id = order_detail_item
          /\ ss_orders[id] # ss_applied_orders[id]
          /\ \A other \in SessionItemIds \ {id} :
                ss_orders[other] = ss_applied_orders[other]

\* a move of the slider, whose value is in the session when the run starts,
\* does show the notice
C29_WitnessSliderNotice ==
    /\ ss_safety_factor # ss_applied_safety_factor
    /\ ss_orders = ss_applied_orders
    /\ notice_shown

-----------------------------------------------------------------------------
(* Orders entered while an uploaded snapshot is selected *)

\* the last run was caused by an edit of an order
Entered == run.entered # <<>>

\* C26 as stated: with a snapshot loaded through the uploader and its file
\* still selected, the order quantity the planner enters for an item is the
\* value the session's orders hold for the item at the end of that run.
C26_EnteredOrderIsHeld ==
    (uploaded.called /\ Entered) =>
        ss_orders[run.entered[1]] = run.entered[2]

\* the run of an edit with a file selected: the session's order of the item
\* is the loaded quantity again, not the quantity entered
C26_WitnessLoadedValueBack ==
    /\ uploaded.called
    /\ Entered
    /\ ss_orders[run.entered[1]] = uploaded.orders[run.entered[1]]
    /\ ss_orders[run.entered[1]] # run.entered[2]

\* without a file in the uploader the quantity entered is held
C26_WitnessHeldWithoutFile ==
    /\ ~uploaded.called
    /\ Entered
    /\ ss_orders[run.entered[1]] = run.entered[2]
    /\ run.entered[2] > 0

====
